---------------------------- MODULE Spec2Model ----------------------------
(***************************************************************************)
(* Strata-based estimation and apportionment engine of EchoPro / echopop.  *)
(*                                                                         *)
(* Components modelled, each with its own specification:                   *)
(*   SpecBin   ComputeBiomassDensity._get_bin_ind                          *)
(*   SpecFill  ComputeBiomassDensity._fill_missing_strata_indices          *)
(*   SpecApp   apportion_kriged_values                                     *)
(*   SpecProp  ComputeBiomassDensity._compute_proportions                  *)
(*   SpecDens  ComputeBiomassDensity._get_tot_biomass_density              *)
(*   SpecRun   ComputeBiomassDensity.get_transect_results_gdf (objects)    *)
(*   SpecSig   ComputeBiomassDensity._get_strata_sig_b, gap filling of     *)
(*             strata_sig_b, Survey.strata_mean_sigma_bs                   *)
(*   SpecAvg   ComputeBiomassDensity._fill_averaged_weight                 *)
(*   SpecKey   ComputeBiomassDensity._generate_length_val_conversion       *)
(*   SpecImp   Survey.impute_missing_sigma_bs beside the gap filler        *)
(*   SpecTr    get_transect_results_gdf, mix ratio to biomass table        *)
(*   SpecRd    read_echoview_export.impute_bad_data                        *)
(*   SpecKp    KrigingParameterInputs.create                               *)
(* A specification leaves the variables of the other components idle.      *)
(***************************************************************************)
EXTENDS Integers, Sequences, FiniteSets, TLC

VARIABLES
    \* ---- _get_bin_ind
    centered_bins,      \* bin centers, strictly increasing sequence of integers
    input_data,         \* sequence of samples [nan, val]; val is in HALF units
    hist_ind,           \* result list: one set of input positions per filled bin
    bin_i,              \* loop variable i of the interior-bin loop
    bin_pc,             \* "first" | "loop" | "last" | "done"
    \* ---- _fill_missing_strata_indices
    nasc_strata,        \* stratum ids of the transect (NASC) table
    df,                 \* the table being filled: stratum id -> row of columns
    df_entry,           \* df as it was on entry (kept for the properties)
    missing_strata,     \* missing strata the loop has not processed yet
    max_known_strata,   \* df.index.max() taken before the loop
    min_known_strata,   \* df.index.min() taken before the loop
    fill_w_one_val,     \* flag taken before the loop
    fill_pc,            \* "start" | "loop" | "done" | "raised"
    \* ---- _fill_averaged_weight / _compute_proportions (one stratum)
    spec_stratum,       \* station 2: one sex code per specimen of the stratum
    len_strata,         \* station 1: rows [sex, length_count] of the stratum
    spec_strata_m,      \* specimens with sex == 1
    spec_strata_f,      \* specimens with sex == 2
    len_strata_m,       \* length rows with sex == 1
    len_strata_f,       \* length rows with sex == 2
    gender_prop,        \* <<M_prop, F_prop>>
    fac1,               \* <<fac1_m, fac1_f>>
    fac2,               \* <<fac2_m, fac2_f>>
    tot_prop,           \* <<tot_prop1, tot_prop2>>
    prop_pc,            \* "split" | "compute" | "done"
    \* ---- apportion_kriged_values
    kriged_strata,              \* stratum -> summed kriged biomass
    aged_proportions,           \* [st][sex][len][age] weight_proportion_overall
    unaged_proportions,         \* [st][sex][len] weight_proportion
    aged_unaged_sex_proportions,\* [st][sex] weight_proportion_overall_unaged
    aged_apportioned,           \* [st][sex][len][age] biomass_apportioned
    unaged_sexed_apportioned,   \* [st][sex][len] biomass_apportioned_unaged
    aged_pivot,                 \* [sex][len][age]
    unaged_pivot,               \* [sex][len]
    unaged_apportioned_values,  \* [sex][len][age]
    kriged_table,               \* [sex][len][age]
    kriging_full_table,         \* [sex or "all"][len][age]
    warned,                     \* warnings.warn was called
    app_pc,                     \* "apportion" | "pivot" | "impute" | "sum"
                                \* | "returned" | "raised"
    \* ---- _get_tot_biomass_density (one transect interval)
    numerical_density,          \* rounded areal numerical density, or NaN
    bc_M_prop,                  \* bc_expanded_df.M_prop of the interval
    bc_F_prop,                  \* bc_expanded_df.F_prop of the interval
    averaged_weight,            \* bc_expanded_df.averaged_weight
    averaged_weight_M,          \* bc_expanded_df.averaged_weight_M
    averaged_weight_F,          \* bc_expanded_df.averaged_weight_F
    numerical_density_male,
    numerical_density_female,
    biomass_density_male,
    biomass_density_female,
    biomass_density_unsexed,
    biomass_density,            \* the returned total
    dens_pc,                    \* "sexes" | "biomass" | "done"
    \* ---- get_transect_results_gdf: the objects it reads and writes
    heap,                       \* object id -> table (a DataFrame object)
    survey_entry,               \* the survey's tables before the first call
    haul_to_transect,           \* haul -> transect_num, NoTransect if NaN
    selected_transects,         \* the argument of both calls
    self_length_df,             \* self.length_df: an object id or "None"
    self_strata_df,             \* self.strata_df
    self_specimen_df,           \* self.specimen_df
    self_nasc_df,               \* self.nasc_df
    self_strata_sig_b,          \* self.strata_sig_b
    self_bio_param_df,          \* self.bio_param_df
    self_weight_fraction_adult_df,
    self_transect_results_gdf,
    first_results,              \* what the first call left in self
    run_no,                     \* 1 | 2: which call is running
    run_pc,                     \* the statement of get_transect_results_gdf
    \* ---- _get_strata_sig_b and Survey.strata_mean_sigma_bs
    strata_df,                  \* haul_num -> stratum_num
    specimen_df,                \* rows [haul_num, length, weight]
    length_df,                  \* rows [haul_num, length, length_count]
    nasc_stratum_num,           \* stratum_num values of nasc_df
    sig_bs_haul,                \* column of strata_df: haul_num -> value
    sig_hauls,                  \* hauls the loop has not visited yet
    strata_sig_b,               \* stratum_num -> 4 pi mean
    mean_haul_sigma_bs,         \* Survey: haul_num -> mean_sigma_bs
    mean_strata_sigma_bs,       \* Survey: stratum_num -> mean_sigma_bs
    sig_pc,                     \* "start" | "loop" | "survey" | "fill"
                                \* | "filling" | "filled"
    \* ---- _fill_averaged_weight: length distributions of one stratum
    avg_spec_stratum,           \* station 2: rows [sex, length]
    avg_len_strata,             \* station 1: rows [sex, length, length_count]
    distribution_length_s1,     \* one fraction per length bin
    distribution_length_m_s1,
    distribution_length_f_s1,
    distribution_length_s2,
    distribution_length_m_s2,
    distribution_length_f_s2,
    bio_param_M_prop,           \* bio_param_df.M_prop.loc[stratum]
    bio_param_F_prop,           \* bio_param_df.F_prop.loc[stratum]
    avg_pc,                     \* "station_1" | "station_2" | "proportions"
                                \* | "done"
    \* ---- _generate_length_val_conversion
    key_df,                     \* rows [length, weight] of df
    len_val_key,                \* the returned array, one entry per bin
    key_pc,                     \* "call" | "done" | "raised"
    \* ---- Survey.impute_missing_sigma_bs
    strata_options,             \* np.unique(strata_df.stratum_num)
    strata_mean,                \* stratum_num -> mean_sigma_bs on entry
    sigma_bs_impute,            \* stratum_num -> mean_sigma_bs, as stored
    imp_pc,                     \* "start" | "done"
    \* ---- get_transect_results_gdf, lines 906-931, for one interval
    x_haul_num,                 \* haul_num of the interval (row x of nasc_df)
    wgt_vals,                   \* haul_num -> fraction_hake (strata_df)
    x_NASC,                     \* NASC of the interval
    x_sig_b,                    \* strata_sig_b.loc[stratum_num of x]
    bc_expanded,                \* bio_param_df.loc[stratum_num of x]
    x_weight_fraction_adult,    \* weight_fraction_adult_df.loc[stratum of x]
    interval_area_nmi2,         \* interval * transect_spacing
    mix_sa_ratio,
    biomass_density_adult,
    biomass,
    tr_pc,                      \* "mix" | "density" | "total" | "adult"
                                \* | "table" | "done"
    \* ---- read_echoview_export.impute_bad_data, one coordinate column
    export_file,                \* the column: row index (from 0) -> value
    export_entry,               \* the column as it was read
    idx_groups,                 \* the groups of bad rows still to impute
    rd_pc,                      \* "call" | "loop" | "done" | "raised"
    \* ---- KrigingParameterInputs.create
    kwargs,                     \* the keyword arguments, edited by create
    kwargs_entry,               \* the keyword arguments of the call
    kp_result,                  \* the dictionary returned
    kp_pc                       \* "create" | "edit" | "dump" | "returned"
                                \* | "rejected"

binVars  == <<centered_bins, input_data, hist_ind, bin_i, bin_pc>>
fillVars == <<nasc_strata, df, df_entry, missing_strata, max_known_strata,
              min_known_strata, fill_w_one_val, fill_pc>>
propVars == <<spec_stratum, len_strata, spec_strata_m, spec_strata_f,
              len_strata_m, len_strata_f, gender_prop, fac1, fac2, tot_prop,
              prop_pc>>
appVars == <<kriged_strata, aged_proportions, unaged_proportions,
             aged_unaged_sex_proportions, aged_apportioned,
             unaged_sexed_apportioned, aged_pivot, unaged_pivot,
             unaged_apportioned_values, kriged_table, kriging_full_table,
             warned, app_pc>>
densVars == <<numerical_density, bc_M_prop, bc_F_prop, averaged_weight,
              averaged_weight_M, averaged_weight_F, numerical_density_male,
              numerical_density_female, biomass_density_male,
              biomass_density_female, biomass_density_unsexed,
              biomass_density, dens_pc>>
runVars == <<heap, survey_entry, haul_to_transect, selected_transects,
             self_length_df, self_strata_df, self_specimen_df, self_nasc_df,
             self_strata_sig_b, self_bio_param_df,
             self_weight_fraction_adult_df, self_transect_results_gdf,
             first_results, run_no, run_pc>>
sigVars == <<strata_df, specimen_df, length_df, nasc_stratum_num,
             sig_bs_haul, sig_hauls, strata_sig_b, mean_haul_sigma_bs,
             mean_strata_sigma_bs, sig_pc>>
avgVars == <<avg_spec_stratum, avg_len_strata, distribution_length_s1,
             distribution_length_m_s1, distribution_length_f_s1,
             distribution_length_s2, distribution_length_m_s2,
             distribution_length_f_s2, bio_param_M_prop, bio_param_F_prop,
             avg_pc>>
keyVars == <<key_df, len_val_key, key_pc>>
impVars == <<strata_options, strata_mean, sigma_bs_impute, imp_pc>>
trVars == <<x_haul_num, wgt_vals, x_NASC, x_sig_b, bc_expanded,
            x_weight_fraction_adult, interval_area_nmi2, mix_sa_ratio,
            biomass_density_adult, biomass, tr_pc>>
rdVars == <<export_file, export_entry, idx_groups, rd_pc>>
kpVars == <<kwargs, kwargs_entry, kp_result, kp_pc>>
vars == <<binVars, fillVars, propVars, appVars, densVars, runVars, sigVars, avgVars, keyVars, impVars, trVars, rdVars, kpVars>>

----------------------------------------------------------------------------
(* Bounds *)
MaxBins    == 4     \* most bin centers
MaxCenter  == 4     \* bin centers are drawn from 0..MaxCenter
MaxData    == 2     \* most input samples
MaxStratum == 5     \* stratum ids are drawn from 1..MaxStratum
MaxSpec    == 3     \* most specimens (station 2) in a stratum
MaxLenRows == 2     \* most length rows (station 1) in a stratum
MaxCount   == 2     \* largest length_count of a length row
NLen       == 3     \* number of length bins of the apportionment tables
NAge       == 2     \* number of age bins of the apportionment tables
MaxKriged  == 1     \* largest kriged biomass of a stratum
MaxDensity == 4     \* largest numerical density of an interval
PropDen    == 4     \* sex proportions are multiples of 1/PropDen
MaxWeight  == 2     \* largest averaged weight
MaxHaul    == 2     \* hauls of the survey are 1..MaxHaul
MaxTransect == 2    \* transects of the survey are 1..MaxTransect
MaxSigStratum == 3  \* strata of the hauls and of the NASC table: 1..MaxSigStratum
MaxSigSpec == 2     \* most specimen rows of the cross-section tables
MaxSigLen  == 1     \* most length rows of the cross-section tables
MaxLength  == 2     \* fish lengths are 1..MaxLength
MaxAvgSpec == 2     \* most specimens of the stratum of _fill_averaged_weight
MaxAvgLen  == 1     \* most length rows of that stratum
MaxKeySpec == 5     \* most specimens of the length-to-weight key
MaxImpStratum == 6  \* strata of impute_missing_sigma_bs: 1..MaxImpStratum
MaxNasc    == 2     \* largest NASC of an interval
MaxRows    == 5     \* most rows of an export file
MaxCoord   == 2     \* valid coordinates are 0..MaxCoord
MaxK       == 11    \* kmin and kmax arguments are 0..MaxK
MaxRange   == 2     \* correlation_range, search_radius arguments: 0..MaxRange

----------------------------------------------------------------------------
(* Generic helpers *)
SetMax(S) == CHOOSE x \in S : \A y \in S : y <= x
SetMin(S) == CHOOSE x \in S : \A y \in S : x <= y

SeqsUpTo(S, n) == UNION {[1..k -> S] : k \in 0..n}

IsIncreasing(c) == \A k \in 1..(Len(c) - 1) : c[k] < c[k + 1]

----------------------------------------------------------------------------
(* Real numbers.  A float is held exactly as a fraction <<n, d>> in lowest  *)
(* terms with d > 0; <<0, 0>> is NaN (0/0) and <<1, 0>>, <<-1, 0>> are the  *)
(* infinities (x/0).  Arithmetic on an undefined operand yields NaN.        *)

RECURSIVE GCD(_, _)
GCD(a, b) == IF b = 0 THEN a ELSE GCD(b, a % b)

AbsInt(x) == IF x < 0 THEN -x ELSE x
Sign(x) == IF x < 0 THEN -1 ELSE IF x > 0 THEN 1 ELSE 0

RNaN == <<0, 0>>
Frac(n, d) ==
    IF d = 0 THEN <<Sign(n), 0>>
    ELSE LET g == GCD(AbsInt(n), AbsInt(d))
         IN  <<(Sign(d) * n) \div g, AbsInt(d) \div g>>
R(n) == <<n, 1>>
Defined(a) == a[2] # 0
RAdd(a, b) == IF Defined(a) /\ Defined(b)
              THEN Frac(a[1] * b[2] + b[1] * a[2], a[2] * b[2]) ELSE RNaN
RSub(a, b) == IF Defined(a) /\ Defined(b)
              THEN Frac(a[1] * b[2] - b[1] * a[2], a[2] * b[2]) ELSE RNaN
RMul(a, b) == IF Defined(a) /\ Defined(b)
              THEN Frac(a[1] * b[1], a[2] * b[2]) ELSE RNaN
RDiv(a, b) == IF Defined(a) /\ Defined(b)
              THEN Frac(a[1] * b[2], a[2] * b[1]) ELSE RNaN
RLeq(a, b) == Defined(a) /\ Defined(b) /\ a[1] * b[2] <= b[1] * a[2]

----------------------------------------------------------------------------
(* _get_bin_ind.  Sample values are held in half units (val = 2 * value),   *)
(* so that a sample can lie exactly on a midpoint of two integer centers;   *)
(* an edge center + bin_diff is held in the same half units.                *)

NaN      == [nan |-> TRUE, val |-> 0]
Num(v2)  == [nan |-> FALSE, val |-> v2]

\* np.diff(centered_bins) / 2.0, in half units: 2 * bin_diff[k]
bin_diff(c) == [k \in 1..(Len(c) - 1) |-> c[k + 1] - c[k]]

\* centered_bins[k] + bin_diff[j], in half units
Edge(c, k, j) == 2 * c[k] + bin_diff(c)[j]

\* comparisons of numpy: every comparison with NaN is False
LessEq(x, e2)  == ~x.nan /\ x.val <= e2
Greater(x, e2) == ~x.nan /\ x.val > e2

\* input_data <= centered_bins[0] + bin_diff[0]
InFirstBin(x, c) == LessEq(x, Edge(c, 1, 1))

\* lower bound taken inclusive: a sample on an edge lands in two bins
InInteriorBinInclusive(x, c, k) ==
    /\ (~x.nan /\ Edge(c, k, k) <= x.val)
    /\ LessEq(x, Edge(c, k + 1, k + 1))

\* g_lb & le_ub of loop iteration i = k - 1 (k is the 1-based position)
InInteriorBin(x, c, k) ==
    /\ Greater(x, Edge(c, k, k))
    /\ LessEq(x, Edge(c, k + 1, k + 1))

\* last bin measured with the first half-width instead of the last one
InLastBinFirstWidth(x, c) == Greater(x, Edge(c, Len(c) - 1, 1))

\* input_data > centered_bins[-2] + bin_diff[-1]
InLastBin(x, c) == Greater(x, Edge(c, Len(c) - 1, Len(c) - 1))

\* np.argwhere(mask).flatten(), as the set of (1-based) positions
ArgWhereFirst(data, c)       == {p \in DOMAIN data : InFirstBin(data[p], c)}
ArgWhereInterior(data, c, k) == {p \in DOMAIN data : InInteriorBin(data[p], c, k)}
ArgWhereLast(data, c)        == {p \in DOMAIN data : InLastBin(data[p], c)}

DataValues == {NaN} \cup {Num(v) : v \in (-1)..(2 * MaxCenter + 1)}

BinIdle ==
    /\ centered_bins = <<0, 1>>
    /\ input_data = <<>>
    /\ hist_ind = <<>>
    /\ bin_i = 0
    /\ bin_pc = "idle"

BinInit ==
    /\ centered_bins \in {c \in SeqsUpTo(0..MaxCenter, MaxBins) :
                            Len(c) >= 2 /\ IsIncreasing(c)}
    /\ input_data \in SeqsUpTo(DataValues, MaxData)
    /\ hist_ind = <<>>
    /\ bin_i = 0
    /\ bin_pc = "first"

\* hist_ind = [np.argwhere(input_data <= centered_bins[0] + bin_diff[0])]
BinFirst ==
    /\ bin_pc = "first"
    /\ hist_ind' = <<ArgWhereFirst(input_data, centered_bins)>>
    /\ bin_i' = 0
    /\ bin_pc' = "loop"
    /\ UNCHANGED <<centered_bins, input_data>>

\* one iteration of: for i in range(len(centered_bins) - 2)
BinLoop ==
    /\ bin_pc = "loop"
    /\ bin_i < Len(centered_bins) - 2
    /\ hist_ind' = Append(hist_ind,
                          ArgWhereInterior(input_data, centered_bins, bin_i + 1))
    /\ bin_i' = bin_i + 1
    /\ UNCHANGED <<centered_bins, input_data, bin_pc>>

\* the loop is exhausted
BinLoopExit ==
    /\ bin_pc = "loop"
    /\ ~(bin_i < Len(centered_bins) - 2)
    /\ bin_pc' = "last"
    /\ UNCHANGED <<centered_bins, input_data, hist_ind, bin_i>>

\* hist_ind.append(np.argwhere(input_data > centered_bins[-2] + bin_diff[-1]))
BinLast ==
    /\ bin_pc = "last"
    /\ hist_ind' = Append(hist_ind, ArgWhereLast(input_data, centered_bins))
    /\ bin_pc' = "done"
    /\ UNCHANGED <<centered_bins, input_data, bin_i>>

FillIdle ==
    /\ nasc_strata = {}
    /\ df = <<>>
    /\ df_entry = <<>>
    /\ missing_strata = {}
    /\ max_known_strata = 0
    /\ min_known_strata = 0
    /\ fill_w_one_val = FALSE
    /\ fill_pc = "idle"

----------------------------------------------------------------------------
(* _fill_missing_strata_indices.  A row of the table is a sequence of       *)
(* columns (a Series has one column).  A cell is an exact fraction, or NaN  *)
(* (the cross-section of a stratum none of whose hauls has a value).        *)

Abs(x) == IF x < 0 THEN -x ELSE x

Strata == 1..MaxStratum

\* rows a known stratum can hold: one-column and two-column tables
RowsOf(ncols) == IF ncols = 1 THEN {<<R(0)>>, <<R(1)>>, <<RNaN>>}
                 ELSE {<<R(0), R(1)>>, <<R(1), R(0)>>}

\* (val_1 + val_2) / 2.0, column by column
Average(val_1, val_2) ==
    [c \in DOMAIN val_1 |-> RDiv(RAdd(val_1[c], val_2[c]), R(2))]

\* np.argpartition(np.abs(strata - df.index), 2)[:2]: two positions whose
\* distances are not larger than any other distance.  Which of several
\* equidistant strata is taken is left to the selection algorithm.
ArgPartitionTwo(d, strata) ==
    {P \in SUBSET (DOMAIN d) :
        /\ Cardinality(P) = 2
        /\ \A p \in P : \A q \in (DOMAIN d) \ P :
              Abs(strata - p) <= Abs(strata - q)}

\* an assignment that never enlarges the table
WriteRowNoEnlarge(d, key, row) ==
    [x \in DOMAIN d |-> IF x = key THEN row ELSE d[x]]

\* an assignment to every row of the table
WriteRowAll(d, key, row) == [x \in (DOMAIN d) \cup {key} |-> row]

\* df.loc[key] = row (setting with enlargement)
WriteRow(d, key, row) ==
    [x \in (DOMAIN d) \cup {key} |-> IF x = key THEN row ELSE d[x]]

\* the two edge branches copy from the wrong end
FilledValueSwapped(d, strata, maxk, mink, one, P) ==
    IF one THEN d[maxk]
    ELSE IF strata > maxk THEN d[mink]
    ELSE IF strata < mink THEN d[maxk]
    ELSE Average(d[SetMin(P)], d[SetMax(P)])

\* the value the loop body assigns to df.loc[strata]; P is the pair of
\* strata chosen by argpartition (read in the last branch only)
FilledValue(d, strata, maxk, mink, one, P) ==
    IF one THEN d[maxk]
    ELSE IF strata > maxk THEN d[maxk]
    ELSE IF strata < mink THEN d[mink]
    ELSE Average(d[SetMin(P)], d[SetMax(P)])

\* the branch that calls np.argpartition(..., 2)
NeedsPartition(strata, maxk, mink, one) ==
    ~one /\ ~(strata > maxk) /\ ~(strata < mink)

\* np.argpartition(a, 2) raises ValueError unless len(a) > 2
PartitionRaises(d) == Cardinality(DOMAIN d) <= 2

FillInit ==
    /\ nasc_strata \in SUBSET Strata
    /\ \E ncols \in 1..2 :
         \E known \in (SUBSET Strata) \ {{}} :
            df \in [known -> RowsOf(ncols)]
    /\ df_entry = df
    /\ missing_strata = {}
    /\ max_known_strata = 0
    /\ min_known_strata = 0
    /\ fill_w_one_val = FALSE
    /\ fill_pc = "start"

\* lines 132-148 with strata missing: take max, min and the flag
FillStart ==
    /\ fill_pc = "start"
    /\ nasc_strata \ DOMAIN df # {}
    /\ missing_strata' = nasc_strata \ DOMAIN df
    /\ max_known_strata' = SetMax(DOMAIN df)
    /\ min_known_strata' = SetMin(DOMAIN df)
    /\ fill_w_one_val' = (Cardinality(DOMAIN df) = 1)
    /\ fill_pc' = "loop"
    /\ UNCHANGED <<nasc_strata, df, df_entry>>

\* lines 137-139: no missing strata, return df as it is
FillNothing ==
    /\ fill_pc = "start"
    /\ nasc_strata \ DOMAIN df = {}
    /\ fill_pc' = "done"
    /\ UNCHANGED <<nasc_strata, df, df_entry, missing_strata,
                   max_known_strata, min_known_strata, fill_w_one_val>>

\* one iteration of: for strata in missing_strata (a set: any order)
FillStrata(strata) ==
    /\ fill_pc = "loop"
    /\ strata \in missing_strata
    /\ ~(/\ NeedsPartition(strata, max_known_strata, min_known_strata,
                           fill_w_one_val)
         /\ PartitionRaises(df))
    /\ \E P \in (IF NeedsPartition(strata, max_known_strata,
                                   min_known_strata, fill_w_one_val)
                 THEN ArgPartitionTwo(df, strata)
                 ELSE {{max_known_strata, min_known_strata}}) :
          df' = WriteRow(df, strata,
                         FilledValue(df, strata, max_known_strata,
                                     min_known_strata, fill_w_one_val, P))
    /\ missing_strata' = missing_strata \ {strata}
    /\ UNCHANGED <<nasc_strata, df_entry, max_known_strata,
                   min_known_strata, fill_w_one_val, fill_pc>>

\* an iteration in which np.argpartition raises ValueError
FillRaise(strata) ==
    /\ fill_pc = "loop"
    /\ strata \in missing_strata
    /\ NeedsPartition(strata, max_known_strata, min_known_strata,
                      fill_w_one_val)
    /\ PartitionRaises(df)
    /\ fill_pc' = "raised"
    /\ UNCHANGED <<nasc_strata, df, df_entry, missing_strata,
                   max_known_strata, min_known_strata, fill_w_one_val>>

\* the loop is exhausted: return df
FillReturn ==
    /\ fill_pc = "loop"
    /\ missing_strata = {}
    /\ fill_pc' = "done"
    /\ UNCHANGED <<nasc_strata, df, df_entry, missing_strata,
                   max_known_strata, min_known_strata, fill_w_one_val>>

FillNext ==
    \/ FillStart /\ UNCHANGED <<binVars, propVars, appVars, densVars, runVars, sigVars, avgVars, keyVars, impVars, trVars, rdVars, kpVars>>
    \/ FillNothing /\ UNCHANGED <<binVars, propVars, appVars, densVars, runVars, sigVars, avgVars, keyVars, impVars, trVars, rdVars, kpVars>>
    \/ \E strata \in Strata : FillStrata(strata) /\ UNCHANGED <<binVars, propVars, appVars, densVars, runVars, sigVars, avgVars, keyVars, impVars, trVars, rdVars, kpVars>>
    \/ \E strata \in Strata : FillRaise(strata) /\ UNCHANGED <<binVars, propVars, appVars, densVars, runVars, sigVars, avgVars, keyVars, impVars, trVars, rdVars, kpVars>>
    \/ FillReturn /\ UNCHANGED <<binVars, propVars, appVars, densVars, runVars, sigVars, avgVars, keyVars, impVars, trVars, rdVars, kpVars>>

----------------------------------------------------------------------------
(* _fill_averaged_weight (split by sex) and _compute_proportions for one    *)
(* stratum.  Sex codes: 1 male, 2 female, 3 unsexed.                        *)

Male   == 1
Female == 2
SexCodes == 1..3

IsMale(row)   == row.sex = Male
IsFemale(row) == row.sex = Female

\* df.shape[0]
Shape0(rows) == Len(rows)

\* df.length_count.sum()
RECURSIVE LengthCountSum(_)
LengthCountSum(rows) ==
    IF rows = <<>> THEN 0
    ELSE Head(rows).length_count + LengthCountSum(Tail(rows))

\* sexed specimens only, the sexed-only count of station 1 as well
TotalNSexedOnly(sm, sf, ls) ==
    Shape0(sm) + Shape0(sf)
        + LengthCountSum(SelectSeq(ls, LAMBDA r : r.sex \in {Male, Female}))

\* total_n: sexed specimens of station 2 plus all counted fish of station 1
TotalN(sm, sf, ls) == Shape0(sm) + Shape0(sf) + LengthCountSum(ls)

\* the four lists returned by _compute_proportions
ComputeProportions(sm, sf, ls, lm, lf) ==
    LET total_n     == R(TotalN(sm, sf, ls))
        spec_m_prop == RDiv(R(Shape0(sm)), total_n)
        spec_f_prop == RDiv(R(Shape0(sf)), total_n)
        len_m_prop  == RDiv(R(LengthCountSum(lm)), total_n)
        len_f_prop  == RDiv(R(LengthCountSum(lf)), total_n)
        tot_prop2_0 == RAdd(spec_m_prop, spec_f_prop)
        tot_prop1_0 == RSub(R(1), tot_prop2_0)
        fac1_m_0    == RMul(tot_prop1_0, R(1))
        fac1_f_0    == RMul(tot_prop1_0, R(1))
        fac1_m      == RDiv(fac1_m_0, RAdd(fac1_m_0, spec_m_prop))
        fac1_f      == RDiv(fac1_f_0, RAdd(fac1_f_0, spec_f_prop))
        fac2_m      == RDiv(spec_m_prop, RAdd(fac1_m, spec_m_prop))
        fac2_f      == RDiv(spec_f_prop, RAdd(fac1_f, spec_f_prop))
        tot_prop1   == RDiv(tot_prop1_0, RAdd(tot_prop1_0, tot_prop2_0))
        tot_prop2   == RDiv(tot_prop2_0, RAdd(tot_prop1, tot_prop2_0))
    IN  [gender_prop |-> <<RAdd(spec_m_prop, len_m_prop),
                           RAdd(spec_f_prop, len_f_prop)>>,
         fac1        |-> <<fac1_m, fac1_f>>,
         fac2        |-> <<fac2_m, fac2_f>>,
         tot_prop    |-> <<tot_prop1, tot_prop2>>]

SpecRows == [sex : SexCodes]
LenRows  == [sex : SexCodes, length_count : 1..MaxCount]

PropIdle ==
    /\ spec_stratum = <<>>
    /\ len_strata = <<>>
    /\ spec_strata_m = <<>>
    /\ spec_strata_f = <<>>
    /\ len_strata_m = <<>>
    /\ len_strata_f = <<>>
    /\ gender_prop = <<RNaN, RNaN>>
    /\ fac1 = <<RNaN, RNaN>>
    /\ fac2 = <<RNaN, RNaN>>
    /\ tot_prop = <<RNaN, RNaN>>
    /\ prop_pc = "idle"

PropInit ==
    /\ spec_stratum \in SeqsUpTo(SpecRows, MaxSpec)
    /\ len_strata \in SeqsUpTo(LenRows, MaxLenRows)
    /\ spec_strata_m = <<>>
    /\ spec_strata_f = <<>>
    /\ len_strata_m = <<>>
    /\ len_strata_f = <<>>
    /\ gender_prop = <<RNaN, RNaN>>
    /\ fac1 = <<RNaN, RNaN>>
    /\ fac2 = <<RNaN, RNaN>>
    /\ tot_prop = <<RNaN, RNaN>>
    /\ prop_pc = "split"

\* _fill_averaged_weight, lines 507-515: split both stations by sex
SplitBySex ==
    /\ prop_pc = "split"
    /\ spec_strata_m' = SelectSeq(spec_stratum, IsMale)
    /\ spec_strata_f' = SelectSeq(spec_stratum, IsFemale)
    /\ len_strata_m' = SelectSeq(len_strata, IsMale)
    /\ len_strata_f' = SelectSeq(len_strata, IsFemale)
    /\ prop_pc' = "compute"
    /\ UNCHANGED <<spec_stratum, len_strata, gender_prop, fac1, fac2, tot_prop>>

\* the call of _compute_proportions, lines 540-542
CallComputeProportions ==
    /\ prop_pc = "compute"
    /\ LET out == ComputeProportions(spec_strata_m, spec_strata_f, len_strata,
                                     len_strata_m, len_strata_f)
       IN  /\ gender_prop' = out.gender_prop
           /\ fac1' = out.fac1
           /\ fac2' = out.fac2
           /\ tot_prop' = out.tot_prop
    /\ prop_pc' = "done"
    /\ UNCHANGED <<spec_stratum, len_strata, spec_strata_m, spec_strata_f,
                   len_strata_m, len_strata_f>>

PropNext ==
    \/ SplitBySex /\ UNCHANGED <<binVars, fillVars, appVars, densVars, runVars, sigVars, avgVars, keyVars, impVars, trVars, rdVars, kpVars>>
    \/ CallComputeProportions /\ UNCHANGED <<binVars, fillVars, appVars, densVars, runVars, sigVars, avgVars, keyVars, impVars, trVars, rdVars, kpVars>>

----------------------------------------------------------------------------
(* apportion_kriged_values.  Tables are functions of their keys; a length   *)
(* or age bin is named by its position (the bins are ordered categories,    *)
(* every pivot holds all of them).                                          *)

Sexes    == {"male", "female", "unsexed"}
LenBins  == 1..NLen
AgeBins  == 1..NAge
AppStrata == {1, 2}

\* sum of a table of reals over the keys in S
RECURSIVE RSum(_, _)
RSum(f, S) ==
    IF S = {} THEN R(0)
    ELSE LET x == CHOOSE x \in S : TRUE
         IN  RAdd(f[x], RSum(f, S \ {x}))

RECURSIVE NatSum(_, _)
NatSum(f, S) ==
    IF S = {} THEN 0
    ELSE LET x == CHOOSE x \in S : TRUE
         IN  f[x] + NatSum(f, S \ {x})

\* .fillna( 0 )
FillNa0(x) == IF Defined(x) THEN x ELSE R(0)

\* aged_pivot.sum( axis = 1 ).unstack( 'sex' ), at one (sex, length bin)
AgedLengthTotal(pivot, sex, l) == RSum(pivot[sex][l], AgeBins)

\* the division by the aged total of the length bin is left out
RedistributeNoDivide(unaged, aged, total) == FillNa0(RMul(unaged, aged))

\* ( unaged_pivot * aged_pivot.unstack( 'sex' ) / aged_length_totals ).fillna( 0 )
\* for one (sex, length bin, age bin)
Redistribute(unaged, aged, total) == FillNa0(RDiv(RMul(unaged, aged), total))

\* np.where( summed_aged_length_totals.loc[ sex ] == 0.0 )[ 0 ]
ZeroAged(pivot, sex) ==
    {l \in LenBins : AgedLengthTotal(pivot, sex, l) = R(0)}

\* np.where( summed_aged_length_totals.loc[ sex ] != 0.0 )[ 0 ]
NonzeroAged(pivot, sex) ==
    {l \in LenBins : AgedLengthTotal(pivot, sex, l) # R(0)}

\* zero_aged[ unaged_pivot[ sex ].iloc[ zero_aged ] != 0.0 ]
NonzeroUnagedIdx(pivot, unaged, sex) ==
    {l \in ZeroAged(pivot, sex) : unaged[sex][l] # R(0)}

\* the farthest donor instead of the nearest
ImputedFromFarthest(pivot, sex, l) ==
    LET donors == NonzeroAged(pivot, sex)
        far == {d \in donors : \A e \in donors : Abs(l - d) >= Abs(l - e)}
    IN  SetMax(far)

\* nonzero_aged[ np.argmin( np.abs( l - nonzero_aged ) ) ]: the first of
\* the nearest positions
ImputedFrom(pivot, sex, l) ==
    LET donors == NonzeroAged(pivot, sex)
        near == {d \in donors : \A e \in donors : Abs(l - d) <= Abs(l - e)}
    IN  SetMin(near)

\* the sexes the imputation block is written for
ImputedSexes == {"male", "female"}

\* np.argmin over an empty axis raises ValueError: the block of a sex is
\* entered when some length bin has no aged mass (len( zero_aged ) > 0)
\* and fails when no length bin has any
ImputeRaises(pivot) ==
    \E sex \in ImputedSexes :
        ZeroAged(pivot, sex) # {} /\ NonzeroAged(pivot, sex) = {}

\* the imputed values without the division by the donor bin's aged total
ImputedValuesNoTotal(values, pivot, unaged) ==
    [sex \in Sexes |-> [l \in LenBins |->
        IF sex \in ImputedSexes /\ l \in NonzeroUnagedIdx(pivot, unaged, sex)
        THEN LET d == ImputedFrom(pivot, sex, l)
             IN  [a \in AgeBins |->
                    RMul(unaged[sex][l], pivot[sex][d][a])]
        ELSE values[sex][l]]]

\* lines 380-426: the table after the imputation block
ImputedValues(values, pivot, unaged) ==
    [sex \in Sexes |-> [l \in LenBins |->
        IF sex \in ImputedSexes /\ l \in NonzeroUnagedIdx(pivot, unaged, sex)
        THEN LET d == ImputedFrom(pivot, sex, l)
             IN  [a \in AgeBins |->
                    RDiv(RMul(unaged[sex][l], pivot[sex][d][a]),
                         AgedLengthTotal(pivot, sex, d))]
        ELSE values[sex][l]]]

\* the 'all' category summed over male and female only
AllCategoryMaleFemale(kt, l, a) ==
    RSum([x \in ImputedSexes |-> kt[x][l][a]], ImputedSexes)

\* lines 453-462: the copy of kriged_table with sex = 'all', summed by
\* (length_bin, age_bin, sex)
AllCategory(kt, l, a) == RSum([x \in Sexes |-> kt[x][l][a]], Sexes)

\* kriged_table[ biomass_apportioned ].sum( )
TableTotal(table) ==
    RSum([sex \in Sexes |->
            RSum([l \in LenBins |-> RSum(table[sex][l], AgeBins)], LenBins)],
         Sexes)

\* kriged_strata.sum( )
KrigedTotal(kriged) == R(NatSum(kriged, AppStrata))

(* Inputs.  The weight proportions of a stratum are those of a table of    *)
(* sample weights: aged weight per (sex, length bin, age bin) and unaged    *)
(* weight per (sex, length bin).                                            *)
Profile(A, U) ==
    [aged   |-> [l \in LenBins |-> [a \in AgeBins |->
                    IF l \in A THEN (IF a = 1 THEN l - 1 ELSE 1) ELSE 0]],
     unaged |-> [l \in LenBins |-> IF l \in U THEN 1 ELSE 0]]

SmallProfiles == {Profile(LenBins, LenBins), Profile({1}, LenBins),
                  Profile({}, {})}

\* the sets of length bins that hold unaged weight in the varied profile
UnagedSets == {{}, {1}, {NLen}, LenBins}

AgedWeight(prof) ==
    NatSum([sex \in Sexes |->
              NatSum([l \in LenBins |-> NatSum(prof[sex].aged[l], AgeBins)],
                     LenBins)], Sexes)
UnagedWeight(prof, sex) == NatSum(prof[sex].unaged, LenBins)
StratumWeight(prof) ==
    AgedWeight(prof) + NatSum([sex \in Sexes |-> UnagedWeight(prof, sex)], Sexes)

AppIdle ==
    /\ kriged_strata = <<>>
    /\ aged_proportions = <<>>
    /\ unaged_proportions = <<>>
    /\ aged_unaged_sex_proportions = <<>>
    /\ aged_apportioned = <<>>
    /\ unaged_sexed_apportioned = <<>>
    /\ aged_pivot = <<>>
    /\ unaged_pivot = <<>>
    /\ unaged_apportioned_values = <<>>
    /\ kriged_table = <<>>
    /\ kriging_full_table = <<>>
    /\ warned = FALSE
    /\ app_pc = "idle"

AppInit ==
    /\ kriged_strata \in [AppStrata -> 0..MaxKriged]
    /\ \E rich \in Sexes, A \in SUBSET LenBins, U \in UnagedSets,
          small \in [Sexes -> SmallProfiles], halved \in BOOLEAN :
        /\ small[rich] = Profile(LenBins, LenBins)
        /\ \E prof \in {[st \in AppStrata |-> [sex \in Sexes |->
                            IF st # 1 THEN Profile(LenBins, LenBins)
                            ELSE IF sex = rich THEN Profile(A, U)
                            ELSE small[sex]]]} :
           \E W \in {[st \in AppStrata |-> StratumWeight(prof[st])]},
              UW \in {[st \in AppStrata |-> [sex \in Sexes |->
                            UnagedWeight(prof[st], sex)]]} :
              /\ W[1] > 0
              /\ aged_proportions =
                    [st \in AppStrata |-> [sex \in Sexes |-> [l \in LenBins |->
                        [a \in AgeBins |->
                            Frac(prof[st][sex].aged[l][a], W[st])]]]]
              /\ unaged_proportions =
                    [st \in AppStrata |-> [sex \in Sexes |-> [l \in LenBins |->
                        IF UW[st][sex] = 0 THEN R(0)
                        ELSE Frac(prof[st][sex].unaged[l], UW[st][sex])]]]
              /\ aged_unaged_sex_proportions =
                    [st \in AppStrata |-> [sex \in Sexes |->
                        Frac(UW[st][sex],
                             (IF halved THEN 2 ELSE 1) * W[st])]]
    /\ aged_apportioned = <<>>
    /\ unaged_sexed_apportioned = <<>>
    /\ aged_pivot = <<>>
    /\ unaged_pivot = <<>>
    /\ unaged_apportioned_values = <<>>
    /\ kriged_table = <<>>
    /\ kriging_full_table = <<>>
    /\ warned = FALSE
    /\ app_pc = "apportion"

appInputs == <<kriged_strata, aged_proportions, unaged_proportions,
               aged_unaged_sex_proportions>>

\* lines 310-330: apportion the kriged biomass of each stratum
ApportionStrata ==
    /\ app_pc = "apportion"
    /\ unaged_sexed_apportioned' =
          [st \in AppStrata |-> [sex \in Sexes |-> [l \in LenBins |->
              RMul(RMul(unaged_proportions[st][sex][l],
                        aged_unaged_sex_proportions[st][sex]),
                   R(kriged_strata[st]))]]]
    /\ aged_apportioned' =
          [st \in AppStrata |-> [sex \in Sexes |-> [l \in LenBins |->
              [a \in AgeBins |->
                  FillNa0(RMul(aged_proportions[st][sex][l][a],
                               R(kriged_strata[st])))]]]]
    /\ app_pc' = "pivot"
    /\ UNCHANGED <<appInputs, aged_pivot, unaged_pivot,
                   unaged_apportioned_values, kriged_table,
                   kriging_full_table, warned>>

\* lines 332-354: pivot (sum over strata) and spread the unaged biomass of a
\* length bin over the age bins of the aged biomass of that bin
PivotAndRedistribute ==
    /\ app_pc = "pivot"
    /\ \E ap \in {[sex \in Sexes |-> [l \in LenBins |-> [a \in AgeBins |->
                    RSum([st \in AppStrata |-> aged_apportioned[st][sex][l][a]],
                         AppStrata)]]]},
          up \in {[sex \in Sexes |-> [l \in LenBins |->
                    RSum([st \in AppStrata |->
                            unaged_sexed_apportioned[st][sex][l]], AppStrata)]]} :
           /\ aged_pivot' = ap
           /\ unaged_pivot' = up
           /\ unaged_apportioned_values' =
                [sex \in Sexes |-> [l \in LenBins |-> [a \in AgeBins |->
                    Redistribute(up[sex][l], ap[sex][l][a],
                                 AgedLengthTotal(ap, sex, l))]]]
    /\ app_pc' = "impute"
    /\ UNCHANGED <<appInputs, aged_apportioned, unaged_sexed_apportioned,
                   kriged_table, kriging_full_table, warned>>

\* lines 356-446: nearest-neighbour imputation for male and female
Impute ==
    /\ app_pc = "impute"
    /\ ~ImputeRaises(aged_pivot)
    /\ unaged_apportioned_values' =
          ImputedValues(unaged_apportioned_values, aged_pivot, unaged_pivot)
    /\ app_pc' = "sum"
    /\ UNCHANGED <<appInputs, aged_apportioned, unaged_sexed_apportioned,
                   aged_pivot, unaged_pivot, kriged_table,
                   kriging_full_table, warned>>

\* lines 393-397, 407-411: np.argmin raises ValueError
ImputeRaise ==
    /\ app_pc = "impute"
    /\ ImputeRaises(aged_pivot)
    /\ app_pc' = "raised"
    /\ UNCHANGED <<appInputs, aged_apportioned, unaged_sexed_apportioned,
                   aged_pivot, unaged_pivot, unaged_apportioned_values,
                   kriged_table, kriging_full_table, warned>>

\* lines 448-473: add aged and unaged estimates, add the 'all' category,
\* compare the totals, warn, return
SumAndValidate ==
    /\ app_pc = "sum"
    /\ \E kt \in {[sex \in Sexes |-> [l \in LenBins |-> [a \in AgeBins |->
                    RAdd(unaged_apportioned_values[sex][l][a],
                         aged_pivot[sex][l][a])]]]} :
           /\ kriged_table' = kt
           /\ kriging_full_table' =
                [sex \in Sexes \cup {"all"} |-> [l \in LenBins |->
                    [a \in AgeBins |->
                        IF sex = "all"
                        THEN AllCategory(kt, l, a)
                        ELSE kt[sex][l][a]]]]
           /\ warned' = (TableTotal(kt) # KrigedTotal(kriged_strata))
    /\ app_pc' = "returned"
    /\ UNCHANGED <<appInputs, aged_apportioned, unaged_sexed_apportioned,
                   aged_pivot, unaged_pivot, unaged_apportioned_values>>

AppNext ==
    \/ ApportionStrata /\ UNCHANGED <<binVars, fillVars, propVars, densVars, runVars, sigVars, avgVars, keyVars, impVars, trVars, rdVars, kpVars>>
    \/ PivotAndRedistribute /\ UNCHANGED <<binVars, fillVars, propVars, densVars, runVars, sigVars, avgVars, keyVars, impVars, trVars, rdVars, kpVars>>
    \/ Impute /\ UNCHANGED <<binVars, fillVars, propVars, densVars, runVars, sigVars, avgVars, keyVars, impVars, trVars, rdVars, kpVars>>
    \/ ImputeRaise /\ UNCHANGED <<binVars, fillVars, propVars, densVars, runVars, sigVars, avgVars, keyVars, impVars, trVars, rdVars, kpVars>>
    \/ SumAndValidate /\ UNCHANGED <<binVars, fillVars, propVars, densVars, runVars, sigVars, avgVars, keyVars, impVars, trVars, rdVars, kpVars>>

----------------------------------------------------------------------------
(* _get_tot_biomass_density for one transect interval.  Densities, sex      *)
(* proportions and weights are exact fractions.                             *)

\* np.round: to the nearest integer, a tie to the even one; NaN stays NaN
RoundHalfEven(x) ==
    IF ~Defined(x) THEN x
    ELSE LET q == x[1] \div x[2]
             r == x[1] - q * x[2]
         IN  IF 2 * r < x[2] THEN R(q)
             ELSE IF 2 * r > x[2] THEN R(q + 1)
             ELSE IF q % 2 = 0 THEN R(q) ELSE R(q + 1)

\* the density of a sex taken as the whole density
SexDensityOfTotal(n, prop) == RoundHalfEven(n)

\* np.round(numerical_density.values * prop)
SexDensity(n, prop) == RoundHalfEven(RMul(n, prop))

\* the unsexed density rounded on its own, like the other two
UnsexedDensityRounded(n, male, female, mp, fp) ==
    RoundHalfEven(RMul(n, RSub(RSub(R(1), mp), fp)))

\* numerical_density.values - numerical_density_male - numerical_density_female
UnsexedDensity(n, male, female, mp, fp) == RSub(RSub(n, male), female)

DensIdle ==
    /\ numerical_density = RNaN
    /\ bc_M_prop = RNaN
    /\ bc_F_prop = RNaN
    /\ averaged_weight = RNaN
    /\ averaged_weight_M = RNaN
    /\ averaged_weight_F = RNaN
    /\ numerical_density_male = RNaN
    /\ numerical_density_female = RNaN
    /\ biomass_density_male = RNaN
    /\ biomass_density_female = RNaN
    /\ biomass_density_unsexed = RNaN
    /\ biomass_density = RNaN
    /\ dens_pc = "idle"

\* the interval's rounded density (undefined when its stratum's
\* cross-section is) and the bio parameters of its stratum
DensInit ==
    /\ numerical_density \in {R(n) : n \in 0..MaxDensity} \cup {RNaN}
    /\ \E m, f \in 0..PropDen :
          /\ m + f <= PropDen
          /\ bc_M_prop = Frac(m, PropDen)
          /\ bc_F_prop = Frac(f, PropDen)
    /\ averaged_weight \in {R(w) : w \in 1..MaxWeight}
    /\ averaged_weight_M \in {R(w) : w \in 1..MaxWeight}
    /\ averaged_weight_F \in {R(w) : w \in 1..MaxWeight}
    /\ numerical_density_male = RNaN
    /\ numerical_density_female = RNaN
    /\ biomass_density_male = RNaN
    /\ biomass_density_female = RNaN
    /\ biomass_density_unsexed = RNaN
    /\ biomass_density = RNaN
    /\ dens_pc = "sexes"

densInputs == <<numerical_density, bc_M_prop, bc_F_prop, averaged_weight,
                averaged_weight_M, averaged_weight_F>>

\* lines 684-690
SexDensities ==
    /\ dens_pc = "sexes"
    /\ numerical_density_male' = SexDensity(numerical_density, bc_M_prop)
    /\ numerical_density_female' = SexDensity(numerical_density, bc_F_prop)
    /\ dens_pc' = "biomass"
    /\ UNCHANGED <<densInputs, biomass_density_male, biomass_density_female,
                   biomass_density_unsexed, biomass_density>>

\* lines 692-704
BiomassDensities ==
    /\ dens_pc = "biomass"
    /\ LET male    == RMul(numerical_density_male, averaged_weight_M)
           female  == RMul(numerical_density_female, averaged_weight_F)
           unsexed == RMul(UnsexedDensity(numerical_density,
                                          numerical_density_male,
                                          numerical_density_female,
                                          bc_M_prop, bc_F_prop),
                           averaged_weight)
       IN  /\ biomass_density_male' = male
           /\ biomass_density_female' = female
           /\ biomass_density_unsexed' = unsexed
           /\ biomass_density' = RAdd(RAdd(male, female), unsexed)
    /\ dens_pc' = "done"
    /\ UNCHANGED <<densInputs, numerical_density_male,
                   numerical_density_female>>

DensNext ==
    \/ SexDensities /\ UNCHANGED <<binVars, fillVars, propVars, appVars, runVars, sigVars, avgVars, keyVars, impVars, trVars, rdVars, kpVars>>
    \/ BiomassDensities /\ UNCHANGED <<binVars, fillVars, propVars, appVars, runVars, sigVars, avgVars, keyVars, impVars, trVars, rdVars, kpVars>>

----------------------------------------------------------------------------
(* get_transect_results_gdf as reads and writes of DataFrame objects.  A    *)
(* table is an object of the heap: its index name, its columns, the keys    *)
(* of its rows (hauls, transects for the NASC table) and the cells of the   *)
(* sig_bs_haul column.  A computed result is the record of what it was      *)
(* computed from, so that two results are equal when their inputs are.      *)

Hauls     == 1..MaxHaul
Transects == 1..MaxTransect
NoTransect == 0

SurveyIds == {"survey.length_df", "survey.strata_df", "survey.specimen_df",
              "survey.nasc_df"}
CopyIds   == {"copy.length_df", "copy.strata_df", "copy.specimen_df",
              "copy.nasc_df"}

\* the object a copy of the survey table src is stored in
CopyId(src) ==
    CASE src = "survey.length_df"   -> "copy.length_df"
      [] src = "survey.strata_df"   -> "copy.strata_df"
      [] src = "survey.specimen_df" -> "copy.specimen_df"
      [] src = "survey.nasc_df"     -> "copy.nasc_df"

NoTable == [index |-> "", columns |-> {}, rows |-> {}, sig_bs_haul |-> <<>>]

Table(index, columns, rows) ==
    [index |-> index, columns |-> columns, rows |-> rows, sig_bs_haul |-> <<>>]

\* df.loc[keys]: the rows of df with these keys
Loc(table, keys) == [table EXCEPT !.rows = table.rows \cap keys]

\* no copy is made of any table
RefOfSurvey(src) == src

\* self.nasc_df = self.survey.nasc_df: the object of the survey itself
RefOfAlias(src) == src

\* df.copy() and df.loc[...]: a new object
RefOfCopy(src) == CopyId(src)

\* the table the class variable is built from; the table self already
\* holds is used when there is one
SourceCached(selfref, src) == IF selfref # "None" THEN selfref ELSE src

\* the table the class variable is built from: always the survey's
Source(selfref, src) == src

\* None, or a list of transect numbers
Selections == {[none |-> TRUE, list |-> {}]}
              \cup {[none |-> FALSE, list |-> T] : T \in SUBSET Transects}

\* transect_vs_haul: the hauls with a transect_num (dropna)
MappedHauls == {h \in Hauls : haul_to_transect[h] # NoTransect}

\* lines 838-840
SelTransects(sel) == {haul_to_transect[h] : h \in MappedHauls} \cap sel.list

\* every mapped haul, whatever the selection
SelHaulsAllMapped(sel) == MappedHauls

\* line 841
SelHauls(sel) == {h \in MappedHauls : haul_to_transect[h] \in SelTransects(sel)}

RunIdle ==
    /\ heap = <<>>
    /\ survey_entry = <<>>
    /\ haul_to_transect = <<>>
    /\ selected_transects = [none |-> TRUE, list |-> {}]
    /\ self_length_df = "None"
    /\ self_strata_df = "None"
    /\ self_specimen_df = "None"
    /\ self_nasc_df = "None"
    /\ self_strata_sig_b = "None"
    /\ self_bio_param_df = "None"
    /\ self_weight_fraction_adult_df = "None"
    /\ self_transect_results_gdf = "None"
    /\ first_results = "None"
    /\ run_no = 0
    /\ run_pc = "idle"

\* __init__, lines 21-37, over a loaded survey
RunInit ==
    /\ \E len_hauls, spec_hauls \in SUBSET Hauls :
          heap = [id \in SurveyIds \cup CopyIds |->
                    CASE id = "survey.length_df" ->
                            Table("haul_num", {"length", "length_count", "sex"},
                                  len_hauls)
                      [] id = "survey.strata_df" ->
                            Table("haul_num, stratum_num", {"fraction_hake"},
                                  Hauls)
                      [] id = "survey.specimen_df" ->
                            Table("haul_num", {"length", "weight", "sex", "age"},
                                  spec_hauls)
                      [] id = "survey.nasc_df" ->
                            Table("transect_num",
                                  {"stratum_num", "haul_num", "NASC"},
                                  Transects)
                      [] OTHER -> NoTable]
    /\ survey_entry = [id \in SurveyIds |-> heap[id]]
    /\ haul_to_transect \in [Hauls -> Transects \cup {NoTransect}]
    /\ selected_transects \in Selections
    /\ self_length_df = "None"
    /\ self_strata_df = "None"
    /\ self_specimen_df = "None"
    /\ self_nasc_df = "None"
    /\ self_strata_sig_b = "None"
    /\ self_bio_param_df = "None"
    /\ self_weight_fraction_adult_df = "None"
    /\ self_transect_results_gdf = "None"
    /\ first_results = "None"
    /\ run_no = 1
    /\ run_pc = "set_class_variables"

runFixed == <<survey_entry, haul_to_transect, selected_transects>>
runRefs == <<self_length_df, self_strata_df, self_specimen_df, self_nasc_df>>
runResults == <<self_strata_sig_b, self_bio_param_df,
                self_weight_fraction_adult_df, self_transect_results_gdf>>

\* set_class_variables, lines 826-867
SetClassVariables ==
    /\ run_pc = "set_class_variables"
    /\ LET sel      == selected_transects
           length   == heap[Source(self_length_df, "survey.length_df")]
           strata   == heap[Source(self_strata_df, "survey.strata_df")]
           specimen == heap[Source(self_specimen_df, "survey.specimen_df")]
           nasc     == heap[Source(self_nasc_df, "survey.nasc_df")]
       IN  IF ~sel.none
           THEN /\ self_length_df' = RefOfCopy("survey.length_df")
                /\ self_strata_df' = RefOfCopy("survey.strata_df")
                /\ self_specimen_df' = RefOfCopy("survey.specimen_df")
                /\ self_nasc_df' = RefOfCopy("survey.nasc_df")
                /\ heap' = [heap EXCEPT
                     ![RefOfCopy("survey.length_df")] =
                         Loc(length, SelHauls(sel)),
                     ![RefOfCopy("survey.strata_df")] =
                         Loc(strata, SelHauls(sel)),
                     ![RefOfCopy("survey.specimen_df")] =
                         Loc(specimen, SelHauls(sel)),
                     ![RefOfCopy("survey.nasc_df")] =
                         Loc(nasc, SelTransects(sel))]
           ELSE /\ self_length_df' = RefOfCopy("survey.length_df")
                /\ self_strata_df' = RefOfCopy("survey.strata_df")
                /\ self_specimen_df' = RefOfCopy("survey.specimen_df")
                /\ self_nasc_df' = RefOfAlias("survey.nasc_df")
                /\ heap' = [heap EXCEPT
                     ![RefOfCopy("survey.length_df")] = length,
                     ![RefOfCopy("survey.strata_df")] = strata,
                     ![RefOfCopy("survey.specimen_df")] = specimen]
    /\ run_pc' = "_get_strata_sig_b"
    /\ UNCHANGED <<runFixed, runResults, first_results, run_no>>

\* _get_strata_sig_b, lines 49-100: the new column of self.strata_df gets
\* a cell for every haul of the specimen index
GetStrataSigB ==
    /\ run_pc = "_get_strata_sig_b"
    /\ LET spec_table == heap[self_specimen_df]
           length_table == heap[self_length_df]
           cells == [haul_num \in spec_table.rows |->
                        [index |-> spec_table.index,
                         in_length_df |-> haul_num \in length_table.rows]]
           strata_table == [heap[self_strata_df] EXCEPT
                               !.columns = @ \cup {"sig_bs_haul"},
                               !.sig_bs_haul = cells]
       IN  /\ heap' = [heap EXCEPT ![self_strata_df] = strata_table]
           /\ self_strata_sig_b' = [sig_bs_haul |-> strata_table.sig_bs_haul,
                                    hauls |-> strata_table.rows]
    /\ run_pc' = "_add_stratum_column"
    /\ UNCHANGED <<runFixed, runRefs, self_bio_param_df,
                   self_weight_fraction_adult_df, self_transect_results_gdf,
                   first_results, run_no>>

\* _add_stratum_column, lines 245-256
AddStratumColumn ==
    /\ run_pc = "_add_stratum_column"
    /\ heap' = [heap EXCEPT
          ![self_specimen_df] = [@ EXCEPT !.columns = @ \cup {"stratum_num"},
                                          !.index = "stratum_num"],
          ![self_length_df] = [@ EXCEPT !.columns = @ \cup {"stratum_num"},
                                        !.index = "stratum_num"]]
    /\ run_pc' = "_get_biomass_parameters"
    /\ UNCHANGED <<runFixed, runRefs, runResults, first_results, run_no>>

\* _get_biomass_parameters, lines 583-622
GetBiomassParameters ==
    /\ run_pc = "_get_biomass_parameters"
    /\ self_bio_param_df' = [specimen_df |-> heap[self_specimen_df],
                             length_df |-> heap[self_length_df]]
    /\ run_pc' = "_get_weight_fraction_adult"
    /\ UNCHANGED <<heap, runFixed, runRefs, self_strata_sig_b,
                   self_weight_fraction_adult_df, self_transect_results_gdf,
                   first_results, run_no>>

\* _get_weight_fraction_adult, lines 763-773
GetWeightFractionAdult ==
    /\ run_pc = "_get_weight_fraction_adult"
    /\ self_weight_fraction_adult_df' = [specimen_df |-> heap[self_specimen_df]]
    /\ run_pc' = "_fill_missing_strata_indices"
    /\ UNCHANGED <<heap, runFixed, runRefs, self_strata_sig_b,
                   self_bio_param_df, self_transect_results_gdf,
                   first_results, run_no>>

\* lines 895-904: each table is filled from a copy, for the strata of
\* self.nasc_df
FillMissingStrata ==
    /\ run_pc = "_fill_missing_strata_indices"
    /\ self_strata_sig_b' = [df |-> self_strata_sig_b,
                             nasc_df |-> heap[self_nasc_df]]
    /\ self_bio_param_df' = [df |-> self_bio_param_df,
                             nasc_df |-> heap[self_nasc_df]]
    /\ self_weight_fraction_adult_df' = [df |-> self_weight_fraction_adult_df,
                                         nasc_df |-> heap[self_nasc_df]]
    /\ run_pc' = "_construct_biomass_table"
    /\ UNCHANGED <<heap, runFixed, runRefs, self_transect_results_gdf,
                   first_results, run_no>>

\* lines 906-931 with _get_tot_biomass_density and _construct_biomass_table
ConstructBiomassTable ==
    /\ run_pc = "_construct_biomass_table"
    /\ self_transect_results_gdf' =
          [strata_df |-> heap[self_strata_df],
           nasc_df |-> heap[self_nasc_df],
           strata_sig_b |-> self_strata_sig_b,
           bio_param_df |-> self_bio_param_df,
           weight_fraction_adult_df |-> self_weight_fraction_adult_df]
    /\ run_pc' = "done"
    /\ UNCHANGED <<heap, runFixed, runRefs, self_strata_sig_b,
                   self_bio_param_df, self_weight_fraction_adult_df,
                   first_results, run_no>>

\* the caller keeps the results and calls again with the same argument
CallAgain ==
    /\ run_pc = "done"
    /\ run_no = 1
    /\ first_results' = runResults
    /\ run_no' = 2
    /\ run_pc' = "set_class_variables"
    /\ UNCHANGED <<heap, runFixed, runRefs, runResults>>

RunNext ==
    \/ SetClassVariables /\ UNCHANGED <<binVars, fillVars, propVars, appVars, densVars, sigVars, avgVars, keyVars, impVars, trVars, rdVars, kpVars>>
    \/ GetStrataSigB /\ UNCHANGED <<binVars, fillVars, propVars, appVars, densVars, sigVars, avgVars, keyVars, impVars, trVars, rdVars, kpVars>>
    \/ AddStratumColumn /\ UNCHANGED <<binVars, fillVars, propVars, appVars, densVars, sigVars, avgVars, keyVars, impVars, trVars, rdVars, kpVars>>
    \/ GetBiomassParameters /\ UNCHANGED <<binVars, fillVars, propVars, appVars, densVars, sigVars, avgVars, keyVars, impVars, trVars, rdVars, kpVars>>
    \/ GetWeightFractionAdult /\ UNCHANGED <<binVars, fillVars, propVars, appVars, densVars, sigVars, avgVars, keyVars, impVars, trVars, rdVars, kpVars>>
    \/ FillMissingStrata /\ UNCHANGED <<binVars, fillVars, propVars, appVars, densVars, sigVars, avgVars, keyVars, impVars, trVars, rdVars, kpVars>>
    \/ ConstructBiomassTable /\ UNCHANGED <<binVars, fillVars, propVars, appVars, densVars, sigVars, avgVars, keyVars, impVars, trVars, rdVars, kpVars>>
    \/ CallAgain /\ UNCHANGED <<binVars, fillVars, propVars, appVars, densVars, sigVars, avgVars, keyVars, impVars, trVars, rdVars, kpVars>>

----------------------------------------------------------------------------
(* _get_strata_sig_b, followed by the gap filling of strata_sig_b, and      *)
(* Survey.strata_mean_sigma_bs over the same tables.  With                  *)
(* TS = 20 log10(length) - 68 the linear value 10^(TS/10) of a fish is      *)
(* length^2 * 10^-6.8: cross-sections are held as exact fractions in units  *)
(* of 10^-6.8, a number being coef * pi^pi.                                 *)

\* 10.0 ** ((20.0 * np.log10(length) - 68.0) / 10.0), in units of 10^-6.8
SigmaBs(length) == length * length

\* 4.0 * np.pi * x
FourPi(x) == [coef |-> RMul(R(4), x), pi |-> 1]

\* x itself
NoPi(x) == [coef |-> x, pi |-> 0]

\* np.nansum(10.0 ** (TS0j / 10.0)) over the rows of a haul
RECURSIVE SumSigmaBs(_)
SumSigmaBs(rows) ==
    IF rows = <<>> THEN 0
    ELSE SigmaBs(Head(rows).length) + SumSigmaBs(Tail(rows))

\* np.nansum((10.0 ** (TS0j_length / 10.0)) * length_count)
RECURSIVE SumSigmaBsCount(_)
SumSigmaBsCount(rows) ==
    IF rows = <<>> THEN 0
    ELSE SigmaBs(Head(rows).length) * Head(rows).length_count
            + SumSigmaBsCount(Tail(rows))

\* spec_df: the specimens with neither length nor weight missing
SpecDropna(spec) == SelectSeq(spec, LAMBDA r : Defined(r.weight))

\* df.loc[haul_num]
RowsOfHaul(rows, haul_num) == SelectSeq(rows, LAMBDA r : r.haul_num = haul_num)

\* df.index.unique()
HaulIndex(rows) == {rows[i].haul_num : i \in DOMAIN rows}

\* the hauls the loop of line 56 visits
LoopHauls(spec) == HaulIndex(SpecDropna(spec))

\* lines 59-95: the value written to strata_df.loc[haul_num, "sig_bs_haul"]
HaulSigBs(spec, len, haul_num) ==
    LET spec_len == RowsOfHaul(SpecDropna(spec), haul_num)
        len_rows == RowsOfHaul(len, haul_num)
        in_length == haul_num \in HaulIndex(len)
        sum_TS0j_length ==
            IF in_length
            THEN SumSigmaBsCount(len_rows) ELSE 0
        num_length ==
            IF in_length THEN LengthCountSum(len_rows) ELSE 0
        sum_TS0j_spec == SumSigmaBs(spec_len)
    IN  Frac(sum_TS0j_spec + sum_TS0j_length, num_length + Len(spec_len))

\* series.groupby("stratum_num").mean(): NaN cells are skipped, a group of
\* NaN cells only has the mean NaN
GroupMean(col, stratum_of, stratum_num) ==
    LET hauls == {h \in DOMAIN col :
                     stratum_of[h] = stratum_num /\ Defined(col[h])}
    IN  IF hauls = {} THEN RNaN
        ELSE RDiv(RSum(col, hauls), R(Cardinality(hauls)))

\* Survey: spec_df_reframed concatenated with length_df; a specimen is a
\* row of count 1 (rows of equal haul and length add up in the average)
AllLengthRows(spec, len) ==
    [i \in 1..Len(spec) |-> [haul_num |-> spec[i].haul_num,
                             length |-> spec[i].length,
                             length_count |-> 1]] \o len

\* Survey: np.average(x['sigma_bs'], weights=x['length_count']) of a haul
HaulMeanSigmaBs(all_rows, haul_num) ==
    LET rows == RowsOfHaul(all_rows, haul_num)
    IN  Frac(SumSigmaBsCount(rows), LengthCountSum(rows))

SigStrata == 1..MaxSigStratum
Lengths   == 1..MaxLength

SigSpecRows == [haul_num : Hauls, length : Lengths, weight : {RNaN, R(1)}]
SigLenRows  == [haul_num : Hauls, length : Lengths, length_count : 1..MaxCount]

\* the rows of a table listed haul by haul, shorter fish first (no result
\* depends on the order of the rows)
RowKey(r) == r.haul_num * (MaxLength + 1) + r.length
InRowOrder(rows) ==
    \A i \in 1..(Len(rows) - 1) : RowKey(rows[i]) <= RowKey(rows[i + 1])

SigIdle ==
    /\ strata_df = <<>>
    /\ specimen_df = <<>>
    /\ length_df = <<>>
    /\ nasc_stratum_num = {}
    /\ sig_bs_haul = <<>>
    /\ sig_hauls = {}
    /\ strata_sig_b = <<>>
    /\ mean_haul_sigma_bs = <<>>
    /\ mean_strata_sigma_bs = <<>>
    /\ sig_pc = "idle"

\* the class tables as set_class_variables leaves them
SigInit ==
    /\ strata_df \in [Hauls -> SigStrata]
    /\ specimen_df \in {t \in SeqsUpTo(SigSpecRows, MaxSigSpec) : InRowOrder(t)}
    /\ length_df \in {t \in SeqsUpTo(SigLenRows, MaxSigLen) : InRowOrder(t)}
    /\ nasc_stratum_num \in SUBSET SigStrata
    /\ sig_bs_haul = <<>>
    /\ sig_hauls = {}
    /\ strata_sig_b = <<>>
    /\ mean_haul_sigma_bs = <<>>
    /\ mean_strata_sigma_bs = <<>>
    /\ sig_pc = "start"

sigInputs == <<strata_df, specimen_df, length_df, nasc_stratum_num>>

\* lines 49-54: the new column is NaN for every haul
SigBStart ==
    /\ sig_pc = "start"
    /\ sig_bs_haul' = [h \in DOMAIN strata_df |-> RNaN]
    /\ sig_hauls' = LoopHauls(specimen_df)
    /\ sig_pc' = "loop"
    /\ UNCHANGED <<sigInputs, strata_sig_b, mean_haul_sigma_bs,
                   mean_strata_sigma_bs, fillVars>>

\* lines 56-95: one iteration of the loop over spec_df.index.unique()
SigBHaul(haul_num) ==
    /\ sig_pc = "loop"
    /\ haul_num \in sig_hauls
    /\ sig_bs_haul' = [sig_bs_haul EXCEPT
                          ![haul_num] = HaulSigBs(specimen_df, length_df, haul_num)]
    /\ sig_hauls' = sig_hauls \ {haul_num}
    /\ UNCHANGED <<sigInputs, strata_sig_b, mean_haul_sigma_bs,
                   mean_strata_sigma_bs, sig_pc, fillVars>>

\* lines 97-100
SigBStrata ==
    /\ sig_pc = "loop"
    /\ sig_hauls = {}
    /\ strata_sig_b' =
          [s \in {strata_df[h] : h \in DOMAIN strata_df} |->
              FourPi(GroupMean(sig_bs_haul, strata_df, s))]
    /\ sig_pc' = "survey"
    /\ UNCHANGED <<sigInputs, sig_bs_haul, sig_hauls, mean_haul_sigma_bs,
                   mean_strata_sigma_bs, fillVars>>

\* Survey.strata_mean_sigma_bs over the same tables
StrataMeanSigmaBs ==
    /\ sig_pc = "survey"
    /\ \E all_length_df \in {AllLengthRows(specimen_df, length_df)} :
       \E haul_mean \in {[h \in HaulIndex(all_length_df) |->
                             HaulMeanSigmaBs(all_length_df, h)]} :
          /\ mean_haul_sigma_bs' = haul_mean
          /\ mean_strata_sigma_bs' =
                [s \in {strata_df[h] : h \in DOMAIN haul_mean} |->
                    NoPi(GroupMean(haul_mean, strata_df, s))]
    /\ sig_pc' = "fill"
    /\ UNCHANGED <<sigInputs, sig_bs_haul, sig_hauls, strata_sig_b, fillVars>>

\* get_transect_results_gdf, lines 896-898: the call of
\* _fill_missing_strata_indices on a copy of strata_sig_b (values in units
\* of pi * 10^-6.8)
SigCallFill ==
    /\ sig_pc = "fill"
    /\ nasc_strata' = nasc_stratum_num
    /\ df' = [s \in DOMAIN strata_sig_b |-> <<strata_sig_b[s].coef>>]
    /\ df_entry' = df'
    /\ fill_pc' = "start"
    /\ sig_pc' = "filling"
    /\ UNCHANGED <<sigInputs, sig_bs_haul, sig_hauls, strata_sig_b,
                   mean_haul_sigma_bs, mean_strata_sigma_bs, missing_strata,
                   max_known_strata, min_known_strata, fill_w_one_val>>

\* the returned table is assigned to self.strata_sig_b
SigFillReturn ==
    /\ sig_pc = "filling"
    /\ fill_pc = "done"
    /\ strata_sig_b' = [s \in DOMAIN df |-> [coef |-> df[s][1], pi |-> 1]]
    /\ sig_pc' = "filled"
    /\ UNCHANGED <<sigInputs, sig_bs_haul, sig_hauls, mean_haul_sigma_bs,
                   mean_strata_sigma_bs, fillVars>>

SigNext ==
    \/ SigBStart /\ UNCHANGED <<binVars, propVars, appVars, densVars, runVars, avgVars, keyVars, impVars, trVars, rdVars, kpVars>>
    \/ \E h \in Hauls : SigBHaul(h) /\ UNCHANGED <<binVars, propVars, appVars, densVars, runVars, avgVars, keyVars, impVars, trVars, rdVars, kpVars>>
    \/ SigBStrata /\ UNCHANGED <<binVars, propVars, appVars, densVars, runVars, avgVars, keyVars, impVars, trVars, rdVars, kpVars>>
    \/ StrataMeanSigmaBs /\ UNCHANGED <<binVars, propVars, appVars, densVars, runVars, avgVars, keyVars, impVars, trVars, rdVars, kpVars>>
    \/ SigCallFill /\ UNCHANGED <<binVars, propVars, appVars, densVars, runVars, avgVars, keyVars, impVars, trVars, rdVars, kpVars>>
    \/ SigFillReturn /\ UNCHANGED <<binVars, propVars, appVars, densVars, runVars, avgVars, keyVars, impVars, trVars, rdVars, kpVars>>
    \/ FillStart /\ UNCHANGED <<binVars, propVars, appVars, densVars, runVars, sigVars, avgVars, keyVars, impVars, trVars, rdVars, kpVars>>
    \/ FillNothing /\ UNCHANGED <<binVars, propVars, appVars, densVars, runVars, sigVars, avgVars, keyVars, impVars, trVars, rdVars, kpVars>>
    \/ \E strata \in Strata : FillStrata(strata) /\ UNCHANGED <<binVars, propVars, appVars, densVars, runVars, sigVars, avgVars, keyVars, impVars, trVars, rdVars, kpVars>>
    \/ \E strata \in Strata : FillRaise(strata) /\ UNCHANGED <<binVars, propVars, appVars, densVars, runVars, sigVars, avgVars, keyVars, impVars, trVars, rdVars, kpVars>>
    \/ FillReturn /\ UNCHANGED <<binVars, propVars, appVars, densVars, runVars, sigVars, avgVars, keyVars, impVars, trVars, rdVars, kpVars>>

----------------------------------------------------------------------------
(* _fill_averaged_weight for one stratum: the length distributions of the   *)
(* two stations and the sex proportions.  The length bins have the centers  *)
(* 1..NLen.                                                                 *)

bio_hake_len_bin == [k \in 1..NLen |-> k]

\* the list returned by _get_bin_ind (lines 219-236), one set per bin
GetBinInd(data, c) ==
    [j \in 1..Len(c) |->
        IF j = 1 THEN ArgWhereFirst(data, c)
        ELSE IF j = Len(c) THEN ArgWhereLast(data, c)
        ELSE ArgWhereInterior(data, c, j - 1)]

\* df.length.values
LengthArr(rows) == [i \in 1..Len(rows) |-> Num(2 * rows[i].length)]

\* x / y of numpy: 0 / 0 is NaN and x / 0 is infinite, with a RuntimeWarning
NpDivide(x, y) == Frac(x, y)

\* _get_distribution_lengths_station_1, lines 339-349
DistributionLengthsStation1(rows) ==
    LET len_ind == GetBinInd(LengthArr(rows), bio_hake_len_bin)
        len_bin_cnt == [k \in DOMAIN len_ind |->
                           NatSum([i \in len_ind[k] |-> rows[i].length_count],
                                  len_ind[k])]
        total == NatSum(len_bin_cnt, DOMAIN len_bin_cnt)
    IN  [k \in DOMAIN len_bin_cnt |-> NpDivide(len_bin_cnt[k], total)]

\* _get_distribution_lengths_station_2, lines 369-378
DistributionLengthsStation2(rows) ==
    LET len_bin_ind == GetBinInd(LengthArr(rows), bio_hake_len_bin)
        len_bin_cnt == [k \in DOMAIN len_bin_ind |-> Cardinality(len_bin_ind[k])]
        total == NatSum(len_bin_cnt, DOMAIN len_bin_cnt)
    IN  [k \in DOMAIN len_bin_cnt |-> NpDivide(len_bin_cnt[k], total)]

AvgSpecRows == [sex : SexCodes, length : Lengths]
AvgLenRows  == [sex : SexCodes, length : Lengths, length_count : 1..MaxCount]

NoDistribution == <<>>

AvgIdle ==
    /\ avg_spec_stratum = <<>>
    /\ avg_len_strata = <<>>
    /\ distribution_length_s1 = NoDistribution
    /\ distribution_length_m_s1 = NoDistribution
    /\ distribution_length_f_s1 = NoDistribution
    /\ distribution_length_s2 = NoDistribution
    /\ distribution_length_m_s2 = NoDistribution
    /\ distribution_length_f_s2 = NoDistribution
    /\ bio_param_M_prop = RNaN
    /\ bio_param_F_prop = RNaN
    /\ avg_pc = "idle"

\* the rows of the stratum in spec_drop_df and length_drop_df
AvgInit ==
    /\ avg_spec_stratum \in SeqsUpTo(AvgSpecRows, MaxAvgSpec)
    /\ avg_len_strata \in SeqsUpTo(AvgLenRows, MaxAvgLen)
    /\ distribution_length_s1 = NoDistribution
    /\ distribution_length_m_s1 = NoDistribution
    /\ distribution_length_f_s1 = NoDistribution
    /\ distribution_length_s2 = NoDistribution
    /\ distribution_length_m_s2 = NoDistribution
    /\ distribution_length_f_s2 = NoDistribution
    /\ bio_param_M_prop = RNaN
    /\ bio_param_F_prop = RNaN
    /\ avg_pc = "station_1"

\* lines 512-524
DistributionsStation1 ==
    /\ avg_pc = "station_1"
    /\ distribution_length_s1' = DistributionLengthsStation1(avg_len_strata)
    /\ distribution_length_m_s1' =
          DistributionLengthsStation1(SelectSeq(avg_len_strata, IsMale))
    /\ distribution_length_f_s1' =
          DistributionLengthsStation1(SelectSeq(avg_len_strata, IsFemale))
    /\ avg_pc' = "station_2"
    /\ UNCHANGED <<avg_spec_stratum, avg_len_strata, distribution_length_s2,
                   distribution_length_m_s2, distribution_length_f_s2,
                   bio_param_M_prop, bio_param_F_prop>>

\* lines 507-510 and 526-538
DistributionsStation2 ==
    /\ avg_pc = "station_2"
    /\ distribution_length_s2' =
          DistributionLengthsStation2(SelectSeq(avg_spec_stratum, IsMale)
                                      \o SelectSeq(avg_spec_stratum, IsFemale))
    /\ distribution_length_m_s2' =
          DistributionLengthsStation2(SelectSeq(avg_spec_stratum, IsMale))
    /\ distribution_length_f_s2' =
          DistributionLengthsStation2(SelectSeq(avg_spec_stratum, IsFemale))
    /\ avg_pc' = "proportions"
    /\ UNCHANGED <<avg_spec_stratum, avg_len_strata, distribution_length_s1,
                   distribution_length_m_s1, distribution_length_f_s1,
                   bio_param_M_prop, bio_param_F_prop>>

\* lines 540-546
FillProportions ==
    /\ avg_pc = "proportions"
    /\ LET out == ComputeProportions(SelectSeq(avg_spec_stratum, IsMale),
                                     SelectSeq(avg_spec_stratum, IsFemale),
                                     avg_len_strata,
                                     SelectSeq(avg_len_strata, IsMale),
                                     SelectSeq(avg_len_strata, IsFemale))
       IN  /\ bio_param_M_prop' = out.gender_prop[1]
           /\ bio_param_F_prop' = out.gender_prop[2]
    /\ avg_pc' = "done"
    /\ UNCHANGED <<avg_spec_stratum, avg_len_strata, distribution_length_s1,
                   distribution_length_m_s1, distribution_length_f_s1,
                   distribution_length_s2, distribution_length_m_s2,
                   distribution_length_f_s2>>

AvgNext ==
    \/ DistributionsStation1 /\ UNCHANGED <<binVars, fillVars, propVars, appVars, densVars, runVars, sigVars, keyVars, impVars, trVars, rdVars, kpVars>>
    \/ DistributionsStation2 /\ UNCHANGED <<binVars, fillVars, propVars, appVars, densVars, runVars, sigVars, keyVars, impVars, trVars, rdVars, kpVars>>
    \/ FillProportions /\ UNCHANGED <<binVars, fillVars, propVars, appVars, densVars, runVars, sigVars, keyVars, impVars, trVars, rdVars, kpVars>>

----------------------------------------------------------------------------
(* _generate_length_val_conversion.  An entry of the key is a number        *)
(* [reg |-> FALSE, val |-> fraction] or the value of the fitted regression  *)
(* curve at a bin center, [reg |-> TRUE, val |-> center]: the curve         *)
(* reg_w0 * center ** reg_p is positive and is not evaluated here.          *)

\* a plain number
Value(x) == [reg |-> FALSE, val |-> x]

\* len_val_reg[k] = reg_w0 * self.bio_hake_len_bin[k] ** reg_p
LenValReg(k) == [reg |-> TRUE, val |-> R(bio_hake_len_bin[k])]

\* lines 286-287: the rows with neither length nor value missing
NoNull(rows) == SelectSeq(rows, LAMBDA r : Defined(r.weight))

\* np.mean(V[ind]) if ind.size > 0 else 0.0
MeanOrZero(V, ind) ==
    IF Cardinality(ind) > 0
    THEN Value(RDiv(RSum(V, ind), R(Cardinality(ind))))
    ELSE Value(R(0))

\* a bin of exactly 5 samples is replaced as well
LessEqFive(cnt) == cnt <= 5

\* len_bin_cnt < 5
LessFive(cnt) == cnt < 5

\* lines 285-319 for a df with rows left after the null filter
LenValKey(rows) ==
    LET df_no_null == NoNull(rows)
        V == [i \in 1..Len(df_no_null) |-> df_no_null[i].weight]
        len_bin_ind == GetBinInd(LengthArr(df_no_null), bio_hake_len_bin)
        len_bin_cnt == [k \in DOMAIN len_bin_ind |-> Cardinality(len_bin_ind[k])]
        key == [k \in DOMAIN len_bin_ind |-> MeanOrZero(V, len_bin_ind[k])]
    IN  [k \in DOMAIN key |->
            IF LessFive(len_bin_cnt[k]) THEN LenValReg(k) ELSE key[k]]

KeyRows == [length : Lengths,
            weight : {R(w) : w \in 1..MaxWeight} \cup {RNaN}]

\* rows listed shorter fish first, lighter first (no entry of the key
\* depends on the order of the rows)
KeyRowKey(r) ==
    r.length * (MaxWeight + 2) + (IF Defined(r.weight) THEN r.weight[1] ELSE 0)
KeyRowOrder(rows) ==
    \A i \in 1..(Len(rows) - 1) : KeyRowKey(rows[i]) <= KeyRowKey(rows[i + 1])

KeyIdle ==
    /\ key_df = <<>>
    /\ len_val_key = <<>>
    /\ key_pc = "idle"

KeyInit ==
    /\ key_df \in {t \in SeqsUpTo(KeyRows, MaxKeySpec) : KeyRowOrder(t)}
    /\ len_val_key = <<>>
    /\ key_pc = "call"

\* the call returns the key
GenerateLengthValConversion ==
    /\ key_pc = "call"
    /\ NoNull(key_df) # <<>>
    /\ len_val_key' = LenValKey(key_df)
    /\ key_pc' = "done"
    /\ UNCHANGED key_df

\* line 300: np.polyfit of an empty vector raises TypeError
KeyPolyfitRaise ==
    /\ key_pc = "call"
    /\ NoNull(key_df) = <<>>
    /\ key_pc' = "raised"
    /\ UNCHANGED <<key_df, len_val_key>>

KeyNext ==
    \/ GenerateLengthValConversion /\ UNCHANGED <<binVars, fillVars, propVars, appVars, densVars, runVars, sigVars, avgVars, impVars, trVars, rdVars, kpVars>>
    \/ KeyPolyfitRaise /\ UNCHANGED <<binVars, fillVars, propVars, appVars, densVars, runVars, sigVars, avgVars, impVars, trVars, rdVars, kpVars>>

----------------------------------------------------------------------------
(* Survey.impute_missing_sigma_bs, run beside _fill_missing_strata_indices  *)
(* on the same table: strata_mean is the one-column table of the known      *)
(* strata and strata_options the strata that need a value.                  *)

ImpStrata == 1..MaxImpStratum

\* mean_sigma_bs of a known stratum
ImpValues == {R(0), R(1)}

\* pandas Series.mean() of two entries: NaN entries are skipped
MeanSkipNa(a, b) ==
    IF Defined(a) /\ Defined(b) THEN RDiv(RAdd(a, b), R(2))
    ELSE IF Defined(a) THEN a
    ELSE b

\* the body of: for i in missing_strata.  strata_floor and strata_ceil are
\* the present strata below and above i; the value is the mean over the
\* rows of the nearest stratum below and the nearest stratum above
ImputedMean(sm, present_strata, i) ==
    LET strata_floor == {p \in present_strata : p < i}
        strata_ceil  == {p \in present_strata : p > i}
    IN  IF strata_floor = {} THEN sm[SetMin(strata_ceil)]
        ELSE IF strata_ceil = {} THEN sm[SetMax(strata_floor)]
        ELSE MeanSkipNa(sm[SetMax(strata_floor)], sm[SetMin(strata_ceil)])

ImpIdle ==
    /\ strata_options = {}
    /\ strata_mean = <<>>
    /\ sigma_bs_impute = <<>>
    /\ imp_pc = "idle"

\* the strata with a mean are strata of strata_df (the haul means are
\* merged with strata_df); both functions are handed the same table
ImpInit ==
    /\ strata_options \in SUBSET ImpStrata
    /\ \E known \in (SUBSET strata_options) \ {{}} :
          strata_mean \in [known -> ImpValues]
    /\ sigma_bs_impute = strata_mean
    /\ imp_pc = "start"
    /\ nasc_strata = strata_options
    /\ df = [s \in DOMAIN strata_mean |-> <<strata_mean[s]>>]
    /\ df_entry = df
    /\ missing_strata = {}
    /\ max_known_strata = 0
    /\ min_known_strata = 0
    /\ fill_w_one_val = FALSE
    /\ fill_pc = "start"

\* impute_missing_sigma_bs: with no missing stratum nothing is stored
ImputeMissingSigmaBs ==
    /\ imp_pc = "start"
    /\ LET present_strata == DOMAIN strata_mean
           imp_missing    == strata_options \ present_strata
       IN  sigma_bs_impute' =
              [s \in present_strata \cup imp_missing |->
                  IF s \in present_strata THEN strata_mean[s]
                  ELSE ImputedMean(strata_mean, present_strata, s)]
    /\ imp_pc' = "done"
    /\ UNCHANGED <<strata_options, strata_mean>>

ImpNext ==
    \/ ImputeMissingSigmaBs /\ UNCHANGED <<binVars, fillVars, propVars, appVars, densVars, runVars, sigVars, avgVars, keyVars, trVars, rdVars, kpVars>>
    \/ FillStart /\ UNCHANGED <<binVars, propVars, appVars, densVars, runVars, sigVars, avgVars, keyVars, impVars, trVars, rdVars, kpVars>>
    \/ FillNothing /\ UNCHANGED <<binVars, propVars, appVars, densVars, runVars, sigVars, avgVars, keyVars, impVars, trVars, rdVars, kpVars>>
    \/ \E strata \in ImpStrata : FillStrata(strata) /\ UNCHANGED <<binVars, propVars, appVars, densVars, runVars, sigVars, avgVars, keyVars, impVars, trVars, rdVars, kpVars>>
    \/ \E strata \in ImpStrata : FillRaise(strata) /\ UNCHANGED <<binVars, propVars, appVars, densVars, runVars, sigVars, avgVars, keyVars, impVars, trVars, rdVars, kpVars>>
    \/ FillReturn /\ UNCHANGED <<binVars, propVars, appVars, densVars, runVars, sigVars, avgVars, keyVars, impVars, trVars, rdVars, kpVars>>

----------------------------------------------------------------------------
(* get_transect_results_gdf, lines 906-931, and _construct_biomass_table    *)
(* for one interval (one row x of nasc_df).  The parameters of the          *)
(* interval's stratum are those left by the gap filling; a cross-section    *)
(* or a sex's averaged weight can be NaN.                                   *)

\* fraction_hake of a haul
Fractions == {Frac(1, 2), R(1)}

\* bio_param_df.loc[stratum]: proportions in units of 1/PropDen
BioParams ==
    {[M_prop |-> Frac(m, PropDen), F_prop |-> Frac(f, PropDen),
      averaged_weight |-> R(1), averaged_weight_M |-> wm,
      averaged_weight_F |-> wf] :
        m \in 0..PropDen, f \in 0..PropDen,
        wm \in {R(1), RNaN}, wf \in {R(1), RNaN}}

\* lambda x: wgt_vals[x.haul_num] if x.haul_num in wgt_vals_ind else 0.0
MixSaRatio(w, haul_num) ==
    IF haul_num \in DOMAIN w THEN w[haul_num] ELSE R(0)

TrIdle ==
    /\ x_haul_num = 0
    /\ wgt_vals = <<>>
    /\ x_NASC = RNaN
    /\ x_sig_b = RNaN
    /\ bc_expanded = <<>>
    /\ x_weight_fraction_adult = RNaN
    /\ interval_area_nmi2 = RNaN
    /\ mix_sa_ratio = RNaN
    /\ biomass_density_adult = RNaN
    /\ biomass = RNaN
    /\ tr_pc = "idle"

TrInit ==
    /\ x_haul_num \in Hauls
    /\ \E H \in SUBSET Hauls : wgt_vals \in [H -> Fractions]
    /\ x_NASC \in {R(n) : n \in 0..MaxNasc}
    /\ x_sig_b \in {R(1), RNaN}
    /\ bc_expanded \in {b \in BioParams :
                          RLeq(RAdd(b.M_prop, b.F_prop), R(1))}
    /\ x_weight_fraction_adult \in {R(1), Frac(1, 2)}
    /\ interval_area_nmi2 \in {R(1), R(2)}
    /\ mix_sa_ratio = RNaN
    /\ biomass_density_adult = RNaN
    /\ biomass = RNaN
    /\ tr_pc = "mix"
    /\ DensIdle

trInputs == <<x_haul_num, wgt_vals, x_NASC, x_sig_b, bc_expanded,
              x_weight_fraction_adult, interval_area_nmi2>>

\* lines 906-912
TrMixSaRatio ==
    /\ tr_pc = "mix"
    /\ mix_sa_ratio' = MixSaRatio(wgt_vals, x_haul_num)
    /\ tr_pc' = "density"
    /\ UNCHANGED <<trInputs, biomass_density_adult, biomass, densVars>>

\* lines 915-918 and the call of _get_tot_biomass_density (line 681: the
\* bio parameters of the interval's stratum)
TrNumericalDensity ==
    /\ tr_pc = "density"
    /\ numerical_density' =
          RoundHalfEven(RDiv(RMul(mix_sa_ratio, x_NASC), x_sig_b))
    /\ bc_M_prop' = bc_expanded.M_prop
    /\ bc_F_prop' = bc_expanded.F_prop
    /\ averaged_weight' = bc_expanded.averaged_weight
    /\ averaged_weight_M' = bc_expanded.averaged_weight_M
    /\ averaged_weight_F' = bc_expanded.averaged_weight_F
    /\ dens_pc' = "sexes"
    /\ tr_pc' = "total"
    /\ UNCHANGED <<trInputs, mix_sa_ratio, biomass_density_adult, biomass,
                   numerical_density_male, numerical_density_female,
                   biomass_density_male, biomass_density_female,
                   biomass_density_unsexed, biomass_density>>

\* lines 924-929
TrAdult ==
    /\ tr_pc = "total"
    /\ dens_pc = "done"
    /\ biomass_density_adult' = RMul(biomass_density, x_weight_fraction_adult)
    /\ tr_pc' = "table"
    /\ UNCHANGED <<trInputs, mix_sa_ratio, biomass, densVars>>

\* _construct_biomass_table, line 801
TrConstructBiomassTable ==
    /\ tr_pc = "table"
    /\ biomass' = RMul(biomass_density_adult, interval_area_nmi2)
    /\ tr_pc' = "done"
    /\ UNCHANGED <<trInputs, mix_sa_ratio, biomass_density_adult, densVars>>

TrNext ==
    \/ TrMixSaRatio /\ UNCHANGED <<binVars, fillVars, propVars, appVars, runVars, sigVars, avgVars, keyVars, impVars, rdVars, kpVars>>
    \/ TrNumericalDensity /\ UNCHANGED <<binVars, fillVars, propVars, appVars, runVars, sigVars, avgVars, keyVars, impVars, rdVars, kpVars>>
    \/ SexDensities /\ UNCHANGED <<binVars, fillVars, propVars, appVars, runVars, sigVars, avgVars, keyVars, impVars, trVars, rdVars, kpVars>>
    \/ BiomassDensities /\ UNCHANGED <<binVars, fillVars, propVars, appVars, runVars, sigVars, avgVars, keyVars, impVars, trVars, rdVars, kpVars>>
    \/ TrAdult /\ UNCHANGED <<binVars, fillVars, propVars, appVars, runVars, sigVars, avgVars, keyVars, impVars, rdVars, kpVars>>
    \/ TrConstructBiomassTable /\ UNCHANGED <<binVars, fillVars, propVars, appVars, runVars, sigVars, avgVars, keyVars, impVars, rdVars, kpVars>>

----------------------------------------------------------------------------
(* read_echoview_export.impute_bad_data for one coordinate column.  The     *)
(* column is a function of the row index 0..N-1 (the RangeIndex of          *)
(* read_csv); a bad value is 999.0 or NaN.                                  *)

Bad999 == R(999)

\* (data[column] == 999.0) | (data[column].isna())
IsBad(v) == v = Bad999 \/ ~Defined(v)

\* invalid_coords
InvalidCoords(d) == {i \in DOMAIN d : IsBad(d[i])}

\* np.digitize(invalid_coords, invalid_coords[delta_invalid_coords],
\* right=True): a group is a maximal run of consecutive bad rows
GroupOf(inv, i) ==
    {j \in inv : \A k \in (IF i < j THEN i ELSE j)..(IF i < j THEN j ELSE i) :
                    k \in inv}
IdxGroups(inv) == {GroupOf(inv, i) : i \in inv}

\* the group the loop over np.unique(idx_groups) takes next
NextGroup(groups) == CHOOSE g \in groups :
                        \A h \in groups : SetMin(g) <= SetMin(h)

\* Case 1, rolling imputation from row i down to row 0
RECURSIVE HeadFill(_, _)
HeadFill(d, i) ==
    IF i < 0 THEN d
    ELSE HeadFill([d EXCEPT ![i] = RSub(RMul(R(2), d[i + 1]), d[i + 2])],
                  i - 1)

\* Case 2, rolling imputation from row i up to row end_index
RECURSIVE TailFill(_, _, _)
TailFill(d, i, end_index) ==
    IF i > end_index THEN d
    ELSE TailFill([d EXCEPT ![i] = RSub(RMul(R(2), d[i - 1]), d[i - 2])],
                  i + 1, end_index)

\* Case 3, the mean step between the valid rows around the group
MiddleFill(d, in_group) ==
    LET start_index == SetMin(in_group) - 1
        end_index   == SetMax(in_group) + 1
        step_mean   == RDiv(RSub(d[end_index], d[start_index]),
                            R(Cardinality(in_group) + 1))
    IN  [i \in DOMAIN d |->
            IF i \in in_group
            THEN RAdd(d[start_index], RMul(step_mean, R(i - start_index)))
            ELSE d[i]]

\* any(in_group == 0)
IsHead(in_group) == 0 \in in_group

\* any(in_group + 2 > len(data))
IsTail(d, in_group) == \E i \in in_group : i + 2 > Cardinality(DOMAIN d)

\* data.loc[label] with a row label that is not in the index: KeyError
GroupRaises(d, in_group) ==
    IF IsHead(in_group) THEN SetMax(in_group) + 2 \notin DOMAIN d
    ELSE IF IsTail(d, in_group) THEN SetMin(in_group) - 2 \notin DOMAIN d
    ELSE FALSE

\* the column after the body of: for group in np.unique(idx_groups)
GroupFill(d, in_group) ==
    IF IsHead(in_group) THEN HeadFill(d, SetMax(in_group))
    ELSE IF IsTail(d, in_group)
         THEN TailFill(d, SetMin(in_group), SetMax(in_group))
    ELSE MiddleFill(d, in_group)

RdValues == {R(v) : v \in 0..MaxCoord} \cup {Bad999, RNaN}

RdIdle ==
    /\ export_file = <<>>
    /\ export_entry = <<>>
    /\ idx_groups = {}
    /\ rd_pc = "idle"

RdInit ==
    /\ \E n \in 0..MaxRows : export_file \in [0..(n - 1) -> RdValues]
    /\ export_entry = export_file
    /\ idx_groups = {}
    /\ rd_pc = "call"

\* lines 46-49: no invalid coordinate, return
RdNothing ==
    /\ rd_pc = "call"
    /\ InvalidCoords(export_file) = {}
    /\ rd_pc' = "done"
    /\ UNCHANGED <<export_file, export_entry, idx_groups>>

\* lines 46-53: the groups of bad rows
RdGroups ==
    /\ rd_pc = "call"
    /\ InvalidCoords(export_file) # {}
    /\ idx_groups' = IdxGroups(InvalidCoords(export_file))
    /\ rd_pc' = "loop"
    /\ UNCHANGED <<export_file, export_entry>>

\* lines 55-86: one iteration of the loop over the groups
RdImputeGroup ==
    /\ rd_pc = "loop"
    /\ idx_groups # {}
    /\ ~GroupRaises(export_file, NextGroup(idx_groups))
    /\ export_file' = GroupFill(export_file, NextGroup(idx_groups))
    /\ idx_groups' = idx_groups \ {NextGroup(idx_groups)}
    /\ UNCHANGED <<export_entry, rd_pc>>

\* an iteration whose first data.loc raises KeyError
RdRaise ==
    /\ rd_pc = "loop"
    /\ idx_groups # {}
    /\ GroupRaises(export_file, NextGroup(idx_groups))
    /\ rd_pc' = "raised"
    /\ UNCHANGED <<export_file, export_entry, idx_groups>>

\* the loop is exhausted
RdReturn ==
    /\ rd_pc = "loop"
    /\ idx_groups = {}
    /\ rd_pc' = "done"
    /\ UNCHANGED <<export_file, export_entry, idx_groups>>

RdNext ==
    \/ RdNothing /\ UNCHANGED <<binVars, fillVars, propVars, appVars, densVars, runVars, sigVars, avgVars, keyVars, impVars, trVars, kpVars>>
    \/ RdGroups /\ UNCHANGED <<binVars, fillVars, propVars, appVars, densVars, runVars, sigVars, avgVars, keyVars, impVars, trVars, kpVars>>
    \/ RdImputeGroup /\ UNCHANGED <<binVars, fillVars, propVars, appVars, densVars, runVars, sigVars, avgVars, keyVars, impVars, trVars, kpVars>>
    \/ RdRaise /\ UNCHANGED <<binVars, fillVars, propVars, appVars, densVars, runVars, sigVars, avgVars, keyVars, impVars, trVars, kpVars>>
    \/ RdReturn /\ UNCHANGED <<binVars, fillVars, propVars, appVars, densVars, runVars, sigVars, avgVars, keyVars, impVars, trVars, kpVars>>

----------------------------------------------------------------------------
(* KrigingParameterInputs.create.  A keyword argument is absent (None) or   *)
(* holds a value; the arguments are non-negative integers, which the type   *)
(* validators posint and realposfloat let through.                          *)

KminDefault == 3
KmaxDefault == 10
KGe         == 3

None    == [some |-> FALSE, val |-> 0]
Some(v) == [some |-> TRUE, val |-> v]

\* values.get(key, default)
Get(o, default) == IF o.some THEN o.val ELSE default

\* validate_k_window passes
ValidateKWindow(kw) ==
    ~(Get(kw.kmax, KmaxDefault) < Get(kw.kmin, KminDefault))

\* truth value of an argument: None and 0 are false
Truthy(o) == o.some /\ o.val # 0

\* validate_spatial_correlation_params passes
ValidateSpatialCorrelationParams(kw) ==
    ~(~Truthy(kw.correlation_range) /\ ~Truthy(kw.search_radius))

\* the Field constraints of the arguments that are given
FieldsValid(kw) ==
    /\ kw.kmin.some => kw.kmin.val >= KGe
    /\ kw.kmax.some => kw.kmax.val >= KGe
    /\ kw.correlation_range.some => kw.correlation_range.val > 0
    /\ kw.search_radius.some => kw.search_radius.val > 0

\* cls(**kwargs) raises no ValidationError
Validates(kw) ==
    /\ ValidateKWindow(kw)
    /\ ValidateSpatialCorrelationParams(kw)
    /\ FieldsValid(kw)

\* the keyword arguments are left as they were given
KwargsUnedited(kw) == kw

\* lines 918-919
EditedKwargs(kw) ==
    IF ~kw.search_radius.some /\ kw.correlation_range.some
    THEN [kw EXCEPT !.search_radius = Some(kw.correlation_range.val * 3)]
    ELSE kw

\* cls(**kwargs).model_dump(exclude_none=True): defaults filled in, the
\* fields that are None left out
ModelDump(kw) ==
    [kmin |-> Get(kw.kmin, KminDefault),
     kmax |-> Get(kw.kmax, KmaxDefault),
     correlation_range |-> kw.correlation_range,
     search_radius |-> kw.search_radius]

KArgs     == {None} \cup {Some(k) : k \in 0..MaxK}
RangeArgs == {None} \cup {Some(r) : r \in 0..MaxRange}

KpIdle ==
    /\ kwargs = <<>>
    /\ kwargs_entry = <<>>
    /\ kp_result = <<>>
    /\ kp_pc = "idle"

KpInit ==
    /\ kwargs \in [kmin : KArgs, kmax : KArgs,
                   correlation_range : RangeArgs, search_radius : RangeArgs]
    /\ kwargs_entry = kwargs
    /\ kp_result = <<>>
    /\ kp_pc = "create"

\* line 916: the test validation passes
KpTestValidate ==
    /\ kp_pc = "create"
    /\ Validates(kwargs)
    /\ kp_pc' = "edit"
    /\ UNCHANGED <<kwargs, kwargs_entry, kp_result>>

\* line 916, 922-924: the ValidationError is raised again
KpReject ==
    /\ kp_pc = "create"
    /\ ~Validates(kwargs)
    /\ kp_pc' = "rejected"
    /\ UNCHANGED <<kwargs, kwargs_entry, kp_result>>

\* lines 918-919
KpEdit ==
    /\ kp_pc = "edit"
    /\ kwargs' = EditedKwargs(kwargs)
    /\ kp_pc' = "dump"
    /\ UNCHANGED <<kwargs_entry, kp_result>>

\* line 921: validate the edited arguments and dump the model
KpDump ==
    /\ kp_pc = "dump"
    /\ IF Validates(kwargs)
       THEN kp_result' = ModelDump(kwargs) /\ kp_pc' = "returned"
       ELSE kp_result' = kp_result /\ kp_pc' = "rejected"
    /\ UNCHANGED <<kwargs, kwargs_entry>>

KpNext ==
    \/ KpTestValidate /\ UNCHANGED <<binVars, fillVars, propVars, appVars, densVars, runVars, sigVars, avgVars, keyVars, impVars, trVars, rdVars>>
    \/ KpReject /\ UNCHANGED <<binVars, fillVars, propVars, appVars, densVars, runVars, sigVars, avgVars, keyVars, impVars, trVars, rdVars>>
    \/ KpEdit /\ UNCHANGED <<binVars, fillVars, propVars, appVars, densVars, runVars, sigVars, avgVars, keyVars, impVars, trVars, rdVars>>
    \/ KpDump /\ UNCHANGED <<binVars, fillVars, propVars, appVars, densVars, runVars, sigVars, avgVars, keyVars, impVars, trVars, rdVars>>

BinNext ==
    \/ BinFirst /\ UNCHANGED <<fillVars, propVars, appVars, densVars, runVars, sigVars, avgVars, keyVars, impVars, trVars, rdVars, kpVars>>
    \/ BinLoop /\ UNCHANGED <<fillVars, propVars, appVars, densVars, runVars, sigVars, avgVars, keyVars, impVars, trVars, rdVars, kpVars>>
    \/ BinLoopExit /\ UNCHANGED <<fillVars, propVars, appVars, densVars, runVars, sigVars, avgVars, keyVars, impVars, trVars, rdVars, kpVars>>
    \/ BinLast /\ UNCHANGED <<fillVars, propVars, appVars, densVars, runVars, sigVars, avgVars, keyVars, impVars, trVars, rdVars, kpVars>>

InitBin == BinInit /\ FillIdle /\ PropIdle /\ AppIdle /\ DensIdle /\ RunIdle /\ SigIdle /\ AvgIdle /\ KeyIdle /\ ImpIdle /\ TrIdle /\ RdIdle /\ KpIdle

SpecBin == InitBin /\ [][BinNext]_vars

InitFill == FillInit /\ BinIdle /\ PropIdle /\ AppIdle /\ DensIdle /\ RunIdle /\ SigIdle /\ AvgIdle /\ KeyIdle /\ ImpIdle /\ TrIdle /\ RdIdle /\ KpIdle

SpecFill == InitFill /\ [][FillNext]_vars

InitProp == PropInit /\ BinIdle /\ FillIdle /\ AppIdle /\ DensIdle /\ RunIdle /\ SigIdle /\ AvgIdle /\ KeyIdle /\ ImpIdle /\ TrIdle /\ RdIdle /\ KpIdle

SpecProp == InitProp /\ [][PropNext]_vars

InitApp == AppInit /\ BinIdle /\ FillIdle /\ PropIdle /\ DensIdle /\ RunIdle /\ SigIdle /\ AvgIdle /\ KeyIdle /\ ImpIdle /\ TrIdle /\ RdIdle /\ KpIdle

SpecApp == InitApp /\ [][AppNext]_vars

InitDens == DensInit /\ BinIdle /\ FillIdle /\ PropIdle /\ AppIdle /\ RunIdle /\ SigIdle /\ AvgIdle /\ KeyIdle /\ ImpIdle /\ TrIdle /\ RdIdle /\ KpIdle

SpecDens == InitDens /\ [][DensNext]_vars

InitRun == RunInit /\ BinIdle /\ FillIdle /\ PropIdle /\ AppIdle /\ DensIdle /\ SigIdle /\ AvgIdle /\ KeyIdle /\ ImpIdle /\ TrIdle /\ RdIdle /\ KpIdle

SpecRun == InitRun /\ [][RunNext]_vars

InitSig == SigInit /\ BinIdle /\ FillIdle /\ PropIdle /\ AppIdle /\ DensIdle /\ RunIdle /\ AvgIdle /\ KeyIdle /\ ImpIdle /\ TrIdle /\ RdIdle /\ KpIdle

SpecSig == InitSig /\ [][SigNext]_vars

InitAvg == AvgInit /\ BinIdle /\ FillIdle /\ PropIdle /\ AppIdle /\ DensIdle /\ RunIdle /\ SigIdle /\ KeyIdle /\ ImpIdle /\ TrIdle /\ RdIdle /\ KpIdle

SpecAvg == InitAvg /\ [][AvgNext]_vars

InitKey == KeyInit /\ BinIdle /\ FillIdle /\ PropIdle /\ AppIdle /\ DensIdle /\ RunIdle /\ SigIdle /\ AvgIdle /\ ImpIdle /\ TrIdle /\ RdIdle /\ KpIdle

SpecKey == InitKey /\ [][KeyNext]_vars

InitImp == ImpInit /\ BinIdle /\ PropIdle /\ AppIdle /\ DensIdle /\ RunIdle /\ SigIdle /\ AvgIdle /\ KeyIdle /\ TrIdle /\ RdIdle /\ KpIdle

SpecImp == InitImp /\ [][ImpNext]_vars

InitTr == TrInit /\ BinIdle /\ FillIdle /\ PropIdle /\ AppIdle /\ RunIdle /\ SigIdle /\ AvgIdle /\ ImpIdle /\ KeyIdle /\ RdIdle /\ KpIdle

SpecTr == InitTr /\ [][TrNext]_vars

InitRd == RdInit /\ BinIdle /\ FillIdle /\ PropIdle /\ AppIdle /\ DensIdle /\ RunIdle /\ SigIdle /\ AvgIdle /\ ImpIdle /\ TrIdle /\ KeyIdle /\ KpIdle

SpecRd == InitRd /\ [][RdNext]_vars

InitKp == KpInit /\ BinIdle /\ FillIdle /\ PropIdle /\ AppIdle /\ DensIdle /\ RunIdle /\ SigIdle /\ AvgIdle /\ ImpIdle /\ TrIdle /\ RdIdle /\ KeyIdle

SpecKp == InitKp /\ [][KpNext]_vars

----------------------------------------------------------------------------
(* Properties of _get_bin_ind *)

BinsOf(p) == {k \in DOMAIN hist_ind : p \in hist_ind[k]}

\* C1: _get_bin_ind returns exactly one index set per bin center; the index
\* of every non-NaN input lies in exactly one returned set and the index of
\* a NaN input lies in none.
C1_Partition ==
    bin_pc = "done" =>
        /\ Len(hist_ind) = Len(centered_bins)
        /\ \A p \in DOMAIN input_data :
              IF input_data[p].nan
              THEN BinsOf(p) = {}
              ELSE Cardinality(BinsOf(p)) = 1

C1_Witness ==
    /\ bin_pc = "done"
    /\ Len(centered_bins) >= 3
    /\ \E p, q \in DOMAIN input_data :
          /\ input_data[p].nan
          /\ ~input_data[q].nan
          /\ q \in hist_ind[2]

\* C2: the boundary between bin k and bin k+1 is the midpoint of their
\* centers and belongs to the lower bin: first bin iff v <= (c1+c2)/2, last
\* bin iff v > midpoint of the last two centers, interior bin k iff
\* midpoint(k-1,k) < v <= midpoint(k,k+1).
C2_Midpoints ==
    bin_pc = "done" =>
        LET c == centered_bins
            n == Len(centered_bins)
        IN  \A p \in DOMAIN input_data :
              ~input_data[p].nan =>
                LET v2 == input_data[p].val
                IN  /\ (p \in hist_ind[1]) <=> (v2 <= c[1] + c[2])
                    /\ (p \in hist_ind[n]) <=> (v2 > c[n - 1] + c[n])
                    /\ \A k \in 2..(n - 1) :
                          (p \in hist_ind[k]) <=>
                              (c[k - 1] + c[k] < v2 /\ v2 <= c[k] + c[k + 1])

\* a sample exactly on the midpoint of two non-uniformly spaced centers
C2_Witness ==
    /\ bin_pc = "done"
    /\ Len(centered_bins) >= 3
    /\ \E k \in 1..(Len(centered_bins) - 2) :
          /\ centered_bins[k + 1] - centered_bins[k]
                # centered_bins[k + 2] - centered_bins[k + 1]
          /\ \E p \in DOMAIN input_data :
                /\ ~input_data[p].nan
                /\ input_data[p].val = centered_bins[k + 1] + centered_bins[k + 2]
                /\ p \in hist_ind[k + 1]

----------------------------------------------------------------------------
(* Properties of _fill_missing_strata_indices *)

EntryStrata == DOMAIN df_entry
FilledStrata == (DOMAIN df) \ EntryStrata
EntryMin == SetMin(EntryStrata)
EntryMax == SetMax(EntryStrata)

\* C3: every filled stratum lying strictly between the minimum and maximum
\* stratum known on entry holds, column by column, the arithmetic mean of
\* the two strata known on entry whose ids are closest to it, however many
\* other strata are missing in the same call.
C3_MeanOfNearestKnown ==
    \A s \in FilledStrata :
        (EntryMin < s /\ s < EntryMax) =>
            \E P \in ArgPartitionTwo(df_entry, s) :
                df[s] = Average(df_entry[SetMin(P)], df_entry[SetMax(P)])

\* C4: for a non-empty table of known strata the call never raises and
\* returns a table whose index holds every stratum of the transect table.
C4_NeverRaises ==
    /\ fill_pc # "raised"
    /\ fill_pc = "done" => nasc_strata \subseteq DOMAIN df

\* C5: with exactly one stratum known on entry, every missing stratum,
\* below or above it, holds exactly the known value after the call.
C5_SingleKnownCopied ==
    (fill_pc = "done" /\ Cardinality(EntryStrata) = 1) =>
        \A s \in nasc_strata \ EntryStrata :
            s \in DOMAIN df /\ df[s] = df_entry[EntryMax]

C5_Witness ==
    /\ fill_pc = "done"
    /\ Cardinality(EntryStrata) = 1
    /\ \E lo, hi \in FilledStrata :
          /\ lo < EntryMin
          /\ hi > EntryMax
          /\ df[lo] = df_entry[EntryMax]
          /\ df[hi] = df_entry[EntryMax]

\* C6: with two or more strata known on entry, a stratum filled below the
\* minimum known id holds the value of the minimum known stratum and a
\* stratum filled above the maximum known id holds the value of the maximum
\* known stratum, whatever was filled earlier in the same call; a call that
\* returns has filled every such stratum.
C6_EdgesCopied ==
    Cardinality(EntryStrata) >= 2 =>
        /\ \A s \in FilledStrata :
              /\ s < EntryMin => df[s] = df_entry[EntryMin]
              /\ s > EntryMax => df[s] = df_entry[EntryMax]
        /\ fill_pc = "done" =>
              \A s \in nasc_strata :
                  (s < EntryMin \/ s > EntryMax) => s \in DOMAIN df

\* both edges filled after an interior stratum, with distinct edge values
C6_Witness ==
    /\ fill_pc = "done"
    /\ Cardinality(EntryStrata) >= 2
    /\ df_entry[EntryMin] # df_entry[EntryMax]
    /\ \E lo, mid, hi \in FilledStrata :
          /\ lo < EntryMin
          /\ EntryMin < mid /\ mid < EntryMax
          /\ hi > EntryMax


\* the final tables of the loop when it takes the missing strata in
\* ascending order (several when argpartition has equidistant strata to
\* choose from, none when it raises)
RECURSIVE FilledAscending(_, _, _, _, _)
FilledAscending(d, missing, maxk, mink, one) ==
    IF missing = {} THEN {d}
    ELSE LET strata == SetMin(missing)
         IN  IF NeedsPartition(strata, maxk, mink, one)
             THEN IF PartitionRaises(d) THEN {}
                  ELSE UNION {FilledAscending(
                                 WriteRow(d, strata,
                                          FilledValue(d, strata, maxk, mink,
                                                      one, P)),
                                 missing \ {strata}, maxk, mink, one) :
                              P \in ArgPartitionTwo(d, strata)}
             ELSE FilledAscending(
                      WriteRow(d, strata,
                               FilledValue(d, strata, maxk, mink, one,
                                           {maxk, mink})),
                      missing \ {strata}, maxk, mink, one)

\* C25: the table returned does not depend on the order in which the loop
\* takes the missing strata: whatever the order, the table is one that the
\* ascending order returns.
C25_OrderIndependent ==
    fill_pc = "done" =>
        df \in FilledAscending(df_entry, nasc_strata \ EntryStrata,
                               EntryMax, EntryMin,
                               Cardinality(EntryStrata) = 1)

\* C26: a stratum known on entry keeps its row, the rows added are rows
\* of strata of the transect table that were missing, and with no stratum
\* missing the table is returned as it was.
C26_KnownRowsKept ==
    /\ \A s \in EntryStrata : s \in DOMAIN df /\ df[s] = df_entry[s]
    /\ FilledStrata \subseteq nasc_strata \ EntryStrata
    /\ (fill_pc = "done" /\ nasc_strata \subseteq EntryStrata) => df = df_entry

\* strata were filled below, between and above known strata of unequal
\* rows, and a known stratum is not in the transect table
C26_Witness ==
    /\ fill_pc = "done"
    /\ \E s \in EntryStrata : s \notin nasc_strata
    /\ \E s, t \in EntryStrata : df_entry[s] # df_entry[t]
    /\ \E lo, mid, hi \in FilledStrata :
          /\ lo < EntryMin
          /\ EntryMin < mid /\ mid < EntryMax
          /\ hi > EntryMax
          /\ df[lo] # df[hi]
----------------------------------------------------------------------------
(* Properties of _compute_proportions *)

M_prop == gender_prop[1]
F_prop == gender_prop[2]

\* fish of station 1 that carry neither sex code 1 nor 2
LenUnsexedCount ==
    LengthCountSum(SelectSeq(len_strata, LAMBDA r : r.sex \notin {Male, Female}))

C16_BlendingWeightsConvex ==
    (prop_pc = "done" /\ LengthCountSum(len_strata) > 0) =>
        \A sex \in {Male, Female} :
            /\ RLeq(R(0), fac1[sex]) /\ RLeq(fac1[sex], R(1))
            /\ RLeq(R(0), fac2[sex]) /\ RLeq(fac2[sex], R(1))
            /\ RAdd(fac1[sex], fac2[sex]) = R(1)

\* C17: fish with a sex code other than 1 and 2 are in neither tally, and
\* the denominator of M_prop and F_prop is the count of all fish of the
\* stratum: every specimen of station 2 and every counted fish of station 1.
C17_UnsexedCountedInTotal ==
    LET all_n == Shape0(spec_stratum) + LengthCountSum(len_strata)
    IN  (prop_pc = "done" /\ all_n # 0) =>
            /\ M_prop = Frac(Shape0(SelectSeq(spec_stratum, IsMale))
                               + LengthCountSum(SelectSeq(len_strata, IsMale)),
                             all_n)
            /\ F_prop = Frac(Shape0(SelectSeq(spec_stratum, IsFemale))
                               + LengthCountSum(SelectSeq(len_strata, IsFemale)),
                             all_n)

\* every entry of the distribution is 0.0
AllZero(dist) == \A k \in DOMAIN dist : dist[k] = R(0)

\* every entry of the distribution is a number
AllDefined(dist) == \A k \in DOMAIN dist : Defined(dist[k])

\* C18: a ratio with a zero denominator is 0.0, never undefined: the
\* station-1 and station-2 length distributions of a sample without fish
\* (all fish, males, females) are all-zero vectors, and the sex proportions
\* of a stratum with total_n = 0 are 0.0.
C18_ZeroDenominatorFallback ==
    LET males_1   == SelectSeq(avg_len_strata, IsMale)
        females_1 == SelectSeq(avg_len_strata, IsFemale)
        males_2   == SelectSeq(avg_spec_stratum, IsMale)
        females_2 == SelectSeq(avg_spec_stratum, IsFemale)
    IN  avg_pc = "done" =>
            /\ avg_len_strata = <<>> => AllZero(distribution_length_s1)
            /\ males_1 = <<>> => AllZero(distribution_length_m_s1)
            /\ females_1 = <<>> => AllZero(distribution_length_f_s1)
            /\ males_2 \o females_2 = <<>> => AllZero(distribution_length_s2)
            /\ males_2 = <<>> => AllZero(distribution_length_m_s2)
            /\ females_2 = <<>> => AllZero(distribution_length_f_s2)
            /\ TotalN(males_2, females_2, avg_len_strata) = 0 =>
                  bio_param_M_prop = R(0) /\ bio_param_F_prop = R(0)

\* the specimens of the key that have a weight and whose length is the
\* center of bin k (lengths and centers are whole numbers)
SpecimensOfBin(k) ==
    {i \in DOMAIN key_df :
        Defined(key_df[i].weight) /\ key_df[i].length = bio_hake_len_bin[k]}

----------------------------------------------------------------------------
(* Properties of apportion_kriged_values *)

\* the aged and unaged weight proportions of every stratum together sum to 1
ProportionsSumToOne ==
    \A st \in AppStrata :
        RAdd(RSum([sex \in Sexes |->
                     RSum([l \in LenBins |->
                             RSum(aged_proportions[st][sex][l], AgeBins)],
                          LenBins)], Sexes),
             RSum([sex \in Sexes |->
                     RSum([l \in LenBins |->
                             RMul(unaged_proportions[st][sex][l],
                                  aged_unaged_sex_proportions[st][sex])],
                          LenBins)], Sexes)) = R(1)

\* a (sex, length bin) with unaged mass and no aged mass
NeedsImputation(sex, l) ==
    /\ unaged_pivot[sex][l] # R(0)
    /\ AgedLengthTotal(aged_pivot, sex, l) = R(0)

\* the length bins with aged mass that are nearest to l by bin position
NearestDonors(sex, l) ==
    {d \in LenBins :
        /\ AgedLengthTotal(aged_pivot, sex, d) # R(0)
        /\ \A e \in LenBins :
              AgedLengthTotal(aged_pivot, sex, e) # R(0)
                  => Abs(l - d) <= Abs(l - e)}

\* C7: when the proportions of every stratum sum to 1 and no (sex, length
\* bin) with unaged mass lacks aged mass, the biomass apportioned over all
\* (sex, length bin, age bin) cells equals the kriged biomass summed over
\* the strata.
C7_TotalConserved ==
    (/\ app_pc = "returned"
     /\ ProportionsSumToOne
     /\ \A sex \in Sexes, l \in LenBins : ~NeedsImputation(sex, l))
        => TableTotal(kriged_table) = KrigedTotal(kriged_strata)

\* both strata carry kriged biomass, every sex has unaged mass, and the
\* unaged mass of some bin is spread over more than one age bin
C7_Witness ==
    /\ app_pc = "returned"
    /\ ProportionsSumToOne
    /\ \A sex \in Sexes, l \in LenBins : ~NeedsImputation(sex, l)
    /\ \A st \in AppStrata : kriged_strata[st] > 0
    /\ \A sex \in Sexes : \E l \in LenBins : unaged_pivot[sex][l] # R(0)
    /\ \E sex \in Sexes, l \in LenBins : \E a, b \in AgeBins :
          /\ a # b
          /\ unaged_apportioned_values[sex][l][a] # R(0)
          /\ unaged_apportioned_values[sex][l][b] # R(0)
    /\ TableTotal(kriged_table) = KrigedTotal(kriged_strata)

\* C8: for each sex (male, female, unsexed) and each length bin with unaged
\* mass but no aged mass, the unaged mass is spread over the age bins with
\* the age distribution of a nearest length bin of that sex that has aged
\* mass (when the sex has such a bin), so the values of the bin are defined
\* and not all zero.
C8_NearestShapeImputed ==
    app_pc = "returned" =>
        \A sex \in Sexes, l \in LenBins :
            (NeedsImputation(sex, l) /\ NearestDonors(sex, l) # {}) =>
                /\ \E d \in NearestDonors(sex, l) :
                      \A a \in AgeBins :
                          unaged_apportioned_values[sex][l][a] =
                              RDiv(RMul(unaged_pivot[sex][l],
                                        aged_pivot[sex][d][a]),
                                   AgedLengthTotal(aged_pivot, sex, d))
                /\ \A a \in AgeBins :
                      Defined(unaged_apportioned_values[sex][l][a])
                /\ \E a \in AgeBins :
                      unaged_apportioned_values[sex][l][a] # R(0)

\* C9: whenever the apportioned total differs from the kriged total, also
\* when a sex has no aged mass in any length bin, the function warns and
\* returns its tables; it never raises.
C9_WarnsAndReturns ==
    /\ app_pc # "raised"
    /\ (/\ app_pc = "returned"
        /\ TableTotal(kriged_table) # KrigedTotal(kriged_strata)) => warned


C28_ImputationConservesMass ==
    app_pc \in {"sum", "returned"} =>
        \A sex \in Sexes, l \in LenBins :
            IF sex \in ImputedSexes
               /\ l \in NonzeroUnagedIdx(aged_pivot, unaged_pivot, sex)
            THEN RSum(unaged_apportioned_values[sex][l], AgeBins)
                    = unaged_pivot[sex][l]
            ELSE \A a \in AgeBins :
                    unaged_apportioned_values[sex][l][a] =
                        FillNa0(RDiv(RMul(unaged_pivot[sex][l],
                                          aged_pivot[sex][l][a]),
                                     AgedLengthTotal(aged_pivot, sex, l)))

\* a male or female length bin was imputed from a donor bin that spreads
\* it over two age bins, beside a bin of that sex that kept its values
C28_Witness ==
    /\ app_pc \in {"sum", "returned"}
    /\ \E sex \in ImputedSexes :
          /\ \E l \in NonzeroUnagedIdx(aged_pivot, unaged_pivot, sex) :
                \E a, b \in AgeBins :
                    /\ a # b
                    /\ unaged_apportioned_values[sex][l][a] # R(0)
                    /\ unaged_apportioned_values[sex][l][b] # R(0)
          /\ \E l \in LenBins \ NonzeroUnagedIdx(aged_pivot, unaged_pivot, sex) :
                \E a \in AgeBins : unaged_apportioned_values[sex][l][a] # R(0)
----------------------------------------------------------------------------
(* Properties of _get_tot_biomass_density *)

\* the unsexed numerical density the unsexed biomass density was built from
DensityUnsexed == RDiv(biomass_density_unsexed, averaged_weight)

\* C11: the male and female densities are round(total x M_prop) and
\* round(total x F_prop), each rounded on its own, and together with the
\* unsexed density entering the biomass they sum exactly to the interval's
\* rounded total density (all of them are undefined when the total is).
C11_DensitiesSumToTotal ==
    /\ dens_pc \in {"biomass", "done"} =>
          /\ numerical_density_male =
                 RoundHalfEven(RMul(numerical_density, bc_M_prop))
          /\ numerical_density_female =
                 RoundHalfEven(RMul(numerical_density, bc_F_prop))
    /\ dens_pc = "done" =>
          RAdd(RAdd(numerical_density_male, numerical_density_female),
               DensityUnsexed) = numerical_density

\* both sexes round up and the residual is negative
C11_Witness ==
    /\ dens_pc = "done"
    /\ Defined(numerical_density)
    /\ numerical_density_male # RMul(numerical_density, bc_M_prop)
    /\ numerical_density_female # RMul(numerical_density, bc_F_prop)
    /\ DensityUnsexed = R(-1)
    /\ RAdd(RAdd(numerical_density_male, numerical_density_female),
            DensityUnsexed) = numerical_density


\* C27: for a total density that is a non-negative integer and sex
\* proportions M_prop >= 0, F_prop >= 0 with M_prop + F_prop <= 1, the
\* unsexed density n - round(n * M_prop) - round(n * F_prop) is at least -1.
C27_UnsexedAtLeastMinusOne ==
    (dens_pc \in {"biomass", "done"} /\ Defined(numerical_density)) =>
        RLeq(R(-1),
             UnsexedDensity(numerical_density, numerical_density_male,
                            numerical_density_female, bc_M_prop, bc_F_prop))

\* both sex densities are ties rounded up to the even integer: the bound
\* is attained
C27_Witness ==
    /\ dens_pc = "biomass"
    /\ Defined(numerical_density)
    /\ RAdd(bc_M_prop, bc_F_prop) = R(1)
    /\ RLeq(RAdd(RMul(numerical_density, bc_M_prop), Frac(1, 2)),
            numerical_density_male)
    /\ RLeq(RAdd(RMul(numerical_density, bc_F_prop), Frac(1, 2)),
            numerical_density_female)
    /\ UnsexedDensity(numerical_density, numerical_density_male,
                      numerical_density_female, bc_M_prop, bc_F_prop) = R(-1)
----------------------------------------------------------------------------
(* Properties of get_transect_results_gdf *)

\* C12: during and after get_transect_results_gdf, for a list of selected
\* transects as for None, the survey's length_df, strata_df, specimen_df
\* and nasc_df have the rows, columns, index and cells they had before the
\* call: the added columns, the index change and the selection are made on
\* other objects.
C12_SurveyTablesUnchanged ==
    run_no >= 1 => \A id \in SurveyIds : heap[id] = survey_entry[id]

\* a completed call over a list that selects a proper part of the hauls,
\* with both columns added and the index changed on the copies
C12_Witness ==
    /\ run_pc = "done"
    /\ ~selected_transects.none
    /\ SelHauls(selected_transects) # {}
    /\ heap[self_specimen_df].rows # {}
    /\ heap[self_specimen_df].rows # heap["survey.specimen_df"].rows
    /\ "sig_bs_haul" \in heap[self_strata_df].columns
    /\ heap[self_specimen_df].index = "stratum_num"
    /\ heap[self_length_df].index = "stratum_num"
    /\ \A id \in SurveyIds : heap[id] = survey_entry[id]

\* C13: a second call with the same selected_transects on the same object
\* and an unmodified survey leaves the same strata_sig_b, bio_param_df,
\* weight_fraction_adult_df and transect results as the first call did.
C13_SecondRunIdentical ==
    (run_no = 2 /\ run_pc = "done") => runResults = first_results

C13_Witness ==
    /\ run_no = 2
    /\ run_pc = "done"
    /\ heap[self_specimen_df].rows # {}
    /\ heap[self_length_df].rows # {}
    /\ runResults = first_results

----------------------------------------------------------------------------
(* Properties of _get_strata_sig_b and Survey.strata_mean_sigma_bs *)

\* the haul has rows in the station-1 (length) table
HasStation1(h) == h \in HaulIndex(length_df)

\* the haul has a station-2 specimen with both length and weight
HasQualifyingSpecimen(h) == h \in HaulIndex(SpecDropna(specimen_df))

HaulsOfStratum(s) == {h \in DOMAIN strata_df : strata_df[h] = s}

\* the arithmetic mean of col over hauls, every haul counting once
UnweightedMean(col, hauls) == RDiv(RSum(col, hauls), R(Cardinality(hauls)))

\* C14: once the haul loop is over, a haul with station-1 rows and no
\* qualifying station-2 specimen holds the cross-section of its station-1
\* fish alone, a haul with qualifying specimens and no station-1 rows holds
\* that of its specimens alone, and in both cases the mean of the haul's
\* stratum is defined.
C14_OneStationHaulContributes ==
    sig_pc \in {"survey", "fill"} =>
        \A h \in DOMAIN strata_df :
            /\ (HasStation1(h) /\ ~HasQualifyingSpecimen(h)) =>
                  /\ sig_bs_haul[h] =
                        Frac(SumSigmaBsCount(RowsOfHaul(length_df, h)),
                             LengthCountSum(RowsOfHaul(length_df, h)))
                  /\ Defined(strata_sig_b[strata_df[h]].coef)
            /\ (HasQualifyingSpecimen(h) /\ ~HasStation1(h)) =>
                  /\ sig_bs_haul[h] =
                        Frac(SumSigmaBs(RowsOfHaul(SpecDropna(specimen_df), h)),
                             Len(RowsOfHaul(SpecDropna(specimen_df), h)))
                  /\ Defined(strata_sig_b[strata_df[h]].coef)

\* C15: a stratum none of whose hauls has a qualifying specimen is absent
\* from the table _get_strata_sig_b produces; no stratum is filled with an
\* undefined value; and once the gap filling has returned every stratum of
\* the transect table has a defined cross-section.
C15_EveryNascStratumDefined ==
    /\ sig_pc \in {"survey", "fill"} =>
          \A s \in {strata_df[h] : h \in DOMAIN strata_df} :
              (\A h \in HaulsOfStratum(s) : ~HasQualifyingSpecimen(h))
                  => s \notin DOMAIN strata_sig_b
    /\ sig_pc = "filling" =>
          \A s \in FilledStrata : Defined(df[s][1])
    /\ sig_pc = "filled" =>
          \A s \in nasc_stratum_num :
              s \in DOMAIN strata_sig_b /\ Defined(strata_sig_b[s].coef)

\* C20: the cross-section of a stratum is 4 pi times the unweighted mean of
\* the haul-level values of its hauls that have one, in the table of
\* _get_strata_sig_b and in the table of Survey.strata_mean_sigma_bs.
C20_FourPiUnweightedMean ==
    sig_pc = "fill" =>
        /\ \A s \in DOMAIN strata_sig_b :
              LET hauls == {h \in HaulsOfStratum(s) : Defined(sig_bs_haul[h])}
              IN  hauls # {} =>
                    strata_sig_b[s] = FourPi(UnweightedMean(sig_bs_haul, hauls))
        /\ \A s \in DOMAIN mean_strata_sigma_bs :
              LET hauls == HaulsOfStratum(s) \cap DOMAIN mean_haul_sigma_bs
              IN  mean_strata_sigma_bs[s] =
                    FourPi(UnweightedMean(mean_haul_sigma_bs, hauls))

----------------------------------------------------------------------------
(* Properties of Survey.impute_missing_sigma_bs *)

ImpMissing == strata_options \ DOMAIN strata_mean

\* C21: on the same table of known strata and the same strata to fill,
\* impute_missing_sigma_bs and _fill_missing_strata_indices store the same
\* value for every missing stratum (the copy of the edge stratum outside
\* the known range, the mean of the two nearest known strata inside it).
C21_SameAsGapFiller ==
    (imp_pc = "done" /\ fill_pc = "done") =>
        \A s \in ImpMissing :
            /\ s \in DOMAIN df
            /\ s \in DOMAIN sigma_bs_impute
            /\ df[s] = <<sigma_bs_impute[s]>>

----------------------------------------------------------------------------
(* Properties of get_transect_results_gdf, lines 906-931 *)

\* C22: in the result table an interval whose haul_num is not in the
\* haul-to-stratum table has mix ratio 0, numerical density 0, biomass
\* density 0 and biomass 0, and an interval whose haul is in the table
\* has the fraction_hake of that haul as its mix ratio.
C22_UnknownHaulZero ==
    tr_pc = "done" =>
        IF x_haul_num \in DOMAIN wgt_vals
        THEN mix_sa_ratio = wgt_vals[x_haul_num]
        ELSE /\ mix_sa_ratio = R(0)
             /\ numerical_density = R(0)
             /\ biomass_density = R(0)
             /\ biomass_density_adult = R(0)
             /\ biomass = R(0)

----------------------------------------------------------------------------
(* Properties of set_class_variables *)

\* the hauls of the three biological tables of self
SelfHauls ==
    heap[self_length_df].rows \cup heap[self_specimen_df].rows
        \cup heap[self_strata_df].rows

\* C23: after set_class_variables with a list of transects, every haul of
\* length_df, specimen_df and strata_df is mapped to a transect of the list
\* and nasc_df holds only transects of the list that have a mapped haul;
\* with None the four tables keep every haul and every transect.
C23_SelectionRestrictsTables ==
    run_pc = "_get_strata_sig_b" =>
        IF selected_transects.none
        THEN /\ heap[self_length_df].rows = survey_entry["survey.length_df"].rows
             /\ heap[self_specimen_df].rows = survey_entry["survey.specimen_df"].rows
             /\ heap[self_strata_df].rows = survey_entry["survey.strata_df"].rows
             /\ heap[self_nasc_df].rows = survey_entry["survey.nasc_df"].rows
        ELSE /\ \A h \in SelfHauls :
                   haul_to_transect[h] \in selected_transects.list
             /\ \A t \in heap[self_nasc_df].rows :
                   /\ t \in selected_transects.list
                   /\ \E h \in Hauls : haul_to_transect[h] = t

\* a list with a transect that has a haul in every table and a transect
\* that has no haul: the first is kept, the second dropped, and a haul of
\* an unselected transect is dropped from the biological tables
C23_Witness ==
    /\ run_pc = "_get_strata_sig_b"
    /\ ~selected_transects.none
    /\ \E t \in selected_transects.list :
          /\ t \in heap[self_nasc_df].rows
          /\ \E h \in heap[self_length_df].rows \cap heap[self_specimen_df].rows
                        \cap heap[self_strata_df].rows :
                haul_to_transect[h] = t
    /\ \E t \in selected_transects.list : t \notin heap[self_nasc_df].rows
    /\ \E h \in survey_entry["survey.length_df"].rows : h \notin SelfHauls

----------------------------------------------------------------------------
(* Properties of read_echoview_export.impute_bad_data *)

ValidRows == (DOMAIN export_entry) \ InvalidCoords(export_entry)

\* the value at row i of the line through the valid rows p and q
OnLine(p, q, i) ==
    RAdd(export_entry[p],
         RDiv(RMul(RSub(export_entry[q], export_entry[p]), R(i - p)),
              R(q - p)))

\* the two valid rows row i is imputed from: the neighbouring valid rows
\* of a run in the middle, the two nearest valid rows of a run at the head
\* or the tail
NearestBelow(i) == {p \in ValidRows : p < i /\ \A r \in ValidRows : r < i => r <= p}
NearestAbove(i) == {q \in ValidRows : q > i /\ \A r \in ValidRows : r > i => q <= r}
Expected(i) ==
    IF NearestBelow(i) # {} /\ NearestAbove(i) # {}
    THEN OnLine(SetMax(NearestBelow(i)), SetMin(NearestAbove(i)), i)
    ELSE IF NearestBelow(i) = {}
    THEN LET q1 == SetMin(ValidRows)
             q2 == SetMin(ValidRows \ {q1})
         IN  OnLine(q1, q2, i)
    ELSE LET p1 == SetMax(ValidRows)
             p2 == SetMax(ValidRows \ {p1})
         IN  OnLine(p2, p1, i)

\* C29: when at least two values of the column are valid the call returns
\* a column with no 999.0 and no NaN, in which a bad run in the middle lies
\* on the line between the neighbouring valid values, a bad run at the head
\* or the tail on the line through the two nearest valid values, and the
\* valid values are unchanged.
C29_BadCoordinatesImputed ==
    Cardinality(ValidRows) >= 2 =>
        /\ rd_pc # "raised"
        /\ rd_pc = "done" =>
              \A i \in DOMAIN export_file :
                  /\ ~IsBad(export_file[i])
                  /\ export_file[i] = IF i \in ValidRows THEN export_entry[i]
                                      ELSE Expected(i)

----------------------------------------------------------------------------
(* Properties of KrigingParameterInputs.create *)

\* kmin and kmax of the call, the defaults taken for an omitted one
EntryKmin == Get(kwargs_entry.kmin, KminDefault)
EntryKmax == Get(kwargs_entry.kmax, KmaxDefault)

\* C30: a call with kmax < kmin (an omitted one taken as 3 or 10), or
\* with neither correlation_range nor search_radius, is rejected with a
\* validation error; a returned dictionary has kmin >= 3, kmax >= kmin and
\* a search_radius, 3 * correlation_range when none was given and the
\* given one otherwise.
C30_KrigingParametersValidated ==
    /\ (/\ kp_pc # "create"
        /\ \/ EntryKmax < EntryKmin
           \/ (~kwargs_entry.correlation_range.some
               /\ ~kwargs_entry.search_radius.some))
          => kp_pc = "rejected"
    /\ kp_pc = "returned" =>
          /\ kp_result.kmin >= 3
          /\ kp_result.kmax >= kp_result.kmin
          /\ kp_result.search_radius.some
          /\ kp_result.search_radius.val =
                IF kwargs_entry.search_radius.some
                THEN kwargs_entry.search_radius.val
                ELSE 3 * kwargs_entry.correlation_range.val

\* a call without kmin and search_radius returns the default kmin and
\* three times the correlation range
C30_Witness ==
    /\ kp_pc = "returned"
    /\ ~kwargs_entry.kmin.some
    /\ kwargs_entry.kmax.some
    /\ ~kwargs_entry.search_radius.some
    /\ kp_result.kmin = 3
    /\ kp_result.kmax > kp_result.kmin
    /\ kp_result.search_radius = Some(3 * kwargs_entry.correlation_range.val)
    /\ kp_result.search_radius.val > kwargs_entry.correlation_range.val

=============================================================================
